---------------------------- MODULE Spec2Model ----------------------------
(***************************************************************************)
(* A model of go-pogo/rawconv: the type register (register.go), the        *)
(* decode path (decode.go: Unmarshal, Unmarshaler.Func, unmarshal,         *)
(* UnmarshalFunc.Exec), the encode path (Marshal, Marshaler.marshal,       *)
(* MarshalFunc.exec) and the primitive codecs they call.                   *)
(*                                                                         *)
(* Text is a sequence of bytes (numbers 0..255), because the code looks at *)
(* single bytes (rune(v[0])) and produces UTF-8 (string(rune)).            *)
(* A reflect.Type is a record [n |-> name, p |-> pointer depth]; the       *)
(* tables below give each named type its kind, element type, length and    *)
(* method sets.                                                            *)
(***************************************************************************)
EXTENDS Integers, Sequences, FiniteSets, TLC

VARIABLES
    pc,     \* where the program is: "idle", "marshalled", "done"
    ureg,   \* unmarshaler.register: the global register[UnmarshalFunc]
    mreg,   \* marshaler.register: the global register[MarshalFunc]
    lreg,   \* u.register of one scoped Unmarshaler u
    lmreg,  \* m.register of one scoped Marshaler m
    lreg2,  \* u2.register of a second scoped Unmarshaler u2
    hist,   \* history: the successful add calls, in order
    res     \* the last call and what it returned

vars == <<pc, ureg, mreg, lreg, lmreg, lreg2, hist, res>>

---------------------------------------------------------------------------
(* Bounds of the model. *)

\* texts of every length up to MaxLen over Alphabet are decoded
MaxLen == 2
\* pointer depth of a destination variable (T, *T, .., up to MaxPtr stars)
MaxPtr == 2
\* registrations made after init() in one behaviour
MaxRegs == 2

---------------------------------------------------------------------------
(* Text. *)

Ord(c) ==
    CASE c = "0" -> 48 [] c = "1" -> 49 [] c = "2" -> 50 [] c = "3" -> 51
      [] c = "4" -> 52 [] c = "5" -> 53 [] c = "6" -> 54 [] c = "7" -> 55
      [] c = "8" -> 56 [] c = "9" -> 57 [] c = "-" -> 45 [] c = "+" -> 43
      [] c = "," -> 44 [] c = "=" -> 61 [] c = " " -> 32 [] c = "a" -> 97
      [] c = "b" -> 98 [] c = "c" -> 99 [] c = "e" -> 101 [] c = "f" -> 102
      [] c = "l" -> 108 [] c = "r" -> 114 [] c = "s" -> 115 [] c = "t" -> 116
      [] c = "u" -> 117 [] c = "A" -> 65 [] c = "E" -> 69 [] c = "F" -> 70
      [] c = "L" -> 76 [] c = "R" -> 82 [] c = "S" -> 83 [] c = "T" -> 84
      [] c = "U" -> 85 [] c = "x" -> 120 [] c = "o" -> 111 [] c = "_" -> 95
      [] c = "\t" -> 9 [] c = "\n" -> 10 [] c = "(" -> 40 [] c = ")" -> 41
      [] c = "i" -> 105 [] c = "." -> 46 [] c = "/" -> 47

\* the text of a sequence of one-character strings
Txt(s) == [i \in 1..Len(s) |-> Ord(s[i])]

Range(s) == {s[i] : i \in DOMAIN s}

EmptyMap == [x \in {} |-> 0]

Put(m, k, v) == [x \in (DOMAIN m) \cup {k} |-> IF x = k THEN v ELSE m[x]]

---------------------------------------------------------------------------
(* Types (reflect.Type). *)

Ty(name) == [n |-> name, p |-> 0]
PtrTo(t) == [n |-> t.n, p |-> t.p + 1]

IntNames == {"int", "int8", "int16", "int32", "int64"}
UintNames == {"uint", "uint8", "uint16", "uint32", "uint64"}
FloatNames == {"float32", "float64"}
ComplexNames == {"complex64", "complex128"}
PrimNames == {"string", "bool"} \cup IntNames \cup UintNames
                \cup FloatNames \cup ComplexNames
IfaceNames == {"TextMarshaler", "TextUnmarshaler", "Stringer"}
\* TextBoth, OnlyU, OnlyM, PtrM, Struct and TextSlice stand for types declared
\* outside the package: with or without MarshalText and UnmarshalText methods
StructNames == {"URL", "TextBoth", "OnlyU", "OnlyM", "PtrM", "Struct"}

\* reflect.Type.Kind of a named, non-pointer type
NameKind(n) ==
    CASE n \in PrimNames -> n
      [] n = "Duration" -> "int64"
      [] n \in StructNames -> "struct"
      [] n \in IfaceNames -> "interface"
      [] n = "chan" -> "chan"
      [] n = "func" -> "func"
      [] n = "uintptr" -> "uintptr"
      [] n = "unsafe.Pointer" -> "unsafe.Pointer"
      [] n = "nil" -> "invalid"
      [] n \in {"TextSlice", "[]int8", "[]string", "[]*int8", "[][]int8", "[]TextSlice",
                "[]map[string]string"} -> "slice"
      [] n \in {"[0]int8", "[1]int8", "[2]int8", "[3]int8", "[2]string",
                "[1][2]int8", "[0][2]int8", "[2][]int8"} -> "array"
      [] n \in {"map[string]string", "map[string]int8", "map[int8]string",
                "map[string]map[string]string", "map[string][]int8",
                "map[int8][]int8", "map[[1]int8]string"} -> "map"

Kind(t) == IF t.p > 0 THEN "ptr" ELSE NameKind(t.n)

\* reflect.Type.Elem: the pointee, or the element type of an array, slice or map
Elem(t) ==
    IF t.p > 0 THEN [n |-> t.n, p |-> t.p - 1]
    ELSE CASE t.n \in {"[]int8", "[0]int8", "[1]int8", "[2]int8", "[3]int8",
                       "map[string]int8"} -> Ty("int8")
           [] t.n \in {"[]string", "[2]string", "map[string]string",
                       "map[int8]string", "map[[1]int8]string"} -> Ty("string")
           [] t.n = "[]*int8" -> PtrTo(Ty("int8"))
           [] t.n \in {"[][]int8", "[2][]int8", "map[string][]int8",
                       "map[int8][]int8"} -> Ty("[]int8")
           [] t.n = "[]TextSlice" -> Ty("TextSlice")
           [] t.n = "TextSlice" -> Ty("uint8")
           [] t.n \in {"[1][2]int8", "[0][2]int8"} -> Ty("[2]int8")
           [] t.n \in {"[]map[string]string", "map[string]map[string]string"}
                -> Ty("map[string]string")

\* reflect.Type.Key of a map type
Key(t) ==
    CASE t.n \in {"map[string]string", "map[string]int8",
                  "map[string]map[string]string", "map[string][]int8"}
            -> Ty("string")
      [] t.n \in {"map[int8]string", "map[int8][]int8"} -> Ty("int8")
      [] t.n = "map[[1]int8]string" -> Ty("[1]int8")

\* reflect.Type.Len of an array type
ArrayLen(t) ==
    CASE t.n \in {"[0]int8", "[0][2]int8"} -> 0
      [] t.n \in {"[1]int8", "[1][2]int8"} -> 1
      [] t.n \in {"[2]int8", "[2]string", "[2][]int8"} -> 2
      [] t.n = "[3]int8" -> 3

\* reflect.Type.Bits of a sized kind (int and uint are 64 bits wide)
Bits(t) ==
    CASE t.n \in {"int8", "uint8"} -> 8
      [] t.n \in {"int16", "uint16"} -> 16
      [] t.n \in {"int32", "uint32", "float32"} -> 32
      [] t.n \in {"complex64"} -> 64
      [] t.n \in {"complex128"} -> 128
      [] OTHER -> 64

\* the interfaces that the method set of the named type T holds
\* (methods with a value receiver)
ValueMethods(n) ==
    CASE n \in {"TextBoth", "TextSlice"} -> {"TextMarshaler", "Stringer"}
      [] n = "OnlyM" -> {"TextMarshaler"}
      [] n = "Duration" -> {"Stringer"}
      [] n \in IfaceNames -> {n}
      [] OTHER -> {}

\* the interfaces that the method set of *T holds (value and pointer receivers)
PointerMethods(n) ==
    CASE n \in {"TextBoth", "TextSlice"} -> {"TextMarshaler", "TextUnmarshaler", "Stringer"}
      [] n = "OnlyU" -> {"TextUnmarshaler"}
      [] n \in {"OnlyM", "PtrM"} -> {"TextMarshaler"}
      [] n \in {"Duration", "URL"} -> {"Stringer"}
      [] OTHER -> {}

\* reflect.Type.Implements(x), x an interface type
Implements(t, x) ==
    CASE t.p = 0 -> x.n \in ValueMethods(t.n)
      [] t.p = 1 -> x.n \in PointerMethods(t.n)
      [] OTHER -> FALSE

---------------------------------------------------------------------------
(* The register (register.go). *)

Nil == "nil"
panicUnsupportedKind == "rawconv: unsupported kind"
panicInvalidFuncIndex == "rawconv: invalid index, func must exist!"

\* the zero value of register[T]: both fields nil
ZeroRegister == [typesNil |-> TRUE, funcsNil |-> TRUE,
                 types |-> EmptyMap, funcs |-> <<>>]

initialized(r) == ~r.typesNil /\ ~r.funcsNil

\* a variant of UnsupportedKinds: slices are accepted
UnsupportedKindsMut == {"invalid", "uintptr", "chan", "func", "unsafe.Pointer",
                        "array", "map"}

\* the kinds register.add panics on
UnsupportedKinds == {"invalid", "uintptr", "chan", "func", "unsafe.Pointer",
                     "array", "map", "slice"}

addPanics(typ) == Kind(typ) \in UnsupportedKinds

\* the nil reflect.Type, and the panic of a method call on it
NilType == [n |-> "nil", p |-> 0]
panicNilType == "runtime error: invalid memory address or nil pointer dereference"

\* a variant of add: a type that is registered already keeps its index
addMut(r, typ, fn) ==
    LET k == Kind(typ)
        inner == IF k \in DOMAIN r.types
                 THEN IF typ \in DOMAIN r.types[k] THEN r.types[k]
                      ELSE Put(r.types[k], typ, Len(r.funcs))
                 ELSE Put(EmptyMap, typ, Len(r.funcs))
    IN [typesNil |-> FALSE, funcsNil |-> FALSE,
        types |-> Put(r.types, k, inner),
        funcs |-> Append(r.funcs, fn)]

\* register.add, for a type it does not panic on
add(r, typ, fn) ==
    LET k == Kind(typ)
        inner == IF k \in DOMAIN r.types
                 THEN Put(r.types[k], typ, Len(r.funcs))
                 ELSE Put(EmptyMap, typ, Len(r.funcs))
    IN [typesNil |-> FALSE, funcsNil |-> FALSE,
        types |-> Put(r.types, k, inner),
        funcs |-> Append(r.funcs, fn)]

\* a variant of addCall: the lazy init comes before the test of the kind
addCallMut(r, typ, fn) ==
    IF typ = NilType THEN [r |-> r, panic |-> panicNilType]
    ELSE IF addPanics(typ)
    THEN [r |-> [r EXCEPT !.typesNil = FALSE, !.funcsNil = FALSE],
          panic |-> panicUnsupportedKind]
    ELSE [r |-> add(r, typ, fn), panic |-> ""]

\* r.add(typ, fn): the register after the call, and its panic ("" for none)
addCall(r, typ, fn) ==
    IF typ = NilType THEN [r |-> r, panic |-> panicNilType]
    ELSE IF addPanics(typ) THEN [r |-> r, panic |-> panicUnsupportedKind]
    ELSE [r |-> add(r, typ, fn), panic |-> ""]

getFromIndex(r, i) ==
    IF i >= Len(r.funcs) THEN panicInvalidFuncIndex ELSE r.funcs[i + 1]

getFromType(r, typ) ==
    IF Kind(typ) \in DOMAIN r.types /\ typ \in DOMAIN r.types[Kind(typ)]
    THEN getFromIndex(r, r.types[Kind(typ)][typ])
    ELSE Nil

\* the interface types registered in r: the keys of r.types[reflect.Interface]
Interfaces(r) ==
    IF "interface" \in DOMAIN r.types THEN DOMAIN r.types["interface"] ELSE {}

\* The orders in which a range over r.types[reflect.Interface] can visit its
\* keys: Go leaves the iteration order of a map unspecified, so every
\* permutation of the keys is possible.
IterOrders(r) ==
    LET S == Interfaces(r)
    IN {o \in [1..Cardinality(S) -> S] : \A i, j \in DOMAIN o : o[i] = o[j] => i = j}

\* register.getFromImpl, its range visiting the keys in the order ord
getFromImpl(r, typ, ord) ==
    LET hits == {i \in DOMAIN ord : Implements(typ, ord[i])}
    IN IF hits = {} THEN Nil
       ELSE LET first == CHOOSE i \in hits : \A j \in hits : i <= j
            IN getFromIndex(r, r.types["interface"][ord[first]])

implTypeMut(typ) == typ

\* reflect.New(typ).Type(): the type whose method set find tests for a type
\* that is not a pointer
implType(typ) == PtrTo(typ)

RECURSIVE find(_, _, _)
find(r, typ, ord) ==
    IF getFromType(r, typ) # Nil THEN getFromType(r, typ)
    ELSE IF Kind(typ) # "ptr" THEN getFromImpl(r, implType(typ), ord)
    ELSE IF find(r, Elem(typ), ord) # Nil THEN find(r, Elem(typ), ord)
    ELSE IF getFromImpl(r, typ, ord) # Nil THEN getFromImpl(r, typ, ord)
    ELSE Nil

\* func init(): the registrations made when the package is loaded
InitUnmarshalRegister ==
    add(add(add(add(ZeroRegister,
        Ty("TextMarshaler"), "unmarshalText"),
        Ty("int32"), "unmarshalRune"),
        Ty("Duration"), "unmarshalDuration"),
        Ty("URL"), "unmarshalUrl")

InitMarshalRegister ==
    add(add(add(add(ZeroRegister,
        Ty("TextMarshaler"), "marshalText"),
        Ty("int32"), "marshalRune"),
        Ty("Duration"), "marshalDuration"),
        Ty("URL"), "marshalUrl")

FuncMut(l, g, typ, lord, gord) ==
    IF find(g, typ, gord) # Nil
    THEN find(g, typ, gord)
    ELSE find(l, typ, lord)

\* Unmarshaler.Func on the scoped Unmarshaler whose register is l, g being
\* the global one; lord and gord are the map iteration orders of the two
Func(l, g, typ, lord, gord) ==
    IF initialized(l) /\ find(l, typ, lord) # Nil
    THEN find(l, typ, lord)
    ELSE find(g, typ, gord)

---------------------------------------------------------------------------
(* Errors. An error is the chain errors.Is walks: a sequence of records,   *)
(* outermost first; the empty sequence is the nil error.                   *)

NoType == [n |-> "", p |-> 0]
NoErr == <<>>
Err(msg) == <<[e |-> msg, t |-> NoType]>>
\* errors.Wrap(err, msg)
Wrap(err, msg) == Err(msg) \o err
\* &UnsupportedTypeError{Type: typ}
UnsupportedTypeError(typ) == <<[e |-> "UnsupportedTypeError", t |-> typ]>>
\* errors.Is(err, msg)
Is(err, msg) == \E i \in DOMAIN err : err[i].e = msg
\* errors.Is(err, &UnsupportedTypeError{Type: typ})
IsUnsupported(err, typ) ==
    \E i \in DOMAIN err : err[i].e = "UnsupportedTypeError" /\ err[i].t = typ

ErrPointerExpected == "expected a non-nil pointer to a value"
ErrUnmarshalNested == "cannot unmarshal nested array/slice/map"
ErrUnableToSet == "unable to set value"
ErrUnableToAddr == "unable to addr value"
ErrRuneTooManyChars == "too many characters"
ErrArrayTooManyValues == "too many values"
ErrMapInvalidFormat == "invalid map format"
ErrUnmarshalFuncExec == "error while executing UnmarshalFunc"
ErrMarshalNested == "cannot marshal nested array/slice/map"
ErrParseFailure == "failed to parse"
ErrValidationFailure == "failed to validate"
\* strconv.NumError with Err = strconv.ErrSyntax, and with Err = strconv.ErrRange
NumErrSyntax == "strconv: invalid syntax"
NumErrRange == "strconv: value out of range"
\* what a failing method of a type outside the package returns
ErrForeign == "error of a foreign method"
panicInterfaceConversion == "interface conversion: missing method"

\* errKind(err), err the error of a strconv function
errKind(e) ==
    IF e = NumErrRange THEN ErrValidationFailure
    ELSE IF e = NumErrSyntax THEN ErrParseFailure
    ELSE Nil

\* what intSize, uintSize, floatSize, complexSize and Value.Bool return as
\* error for the strconv error e ("" for none)
kindWrapped(e) ==
    IF e = "" THEN NoErr
    ELSE IF errKind(e) # Nil THEN Wrap(Err(e), errKind(e))
    ELSE Err(e)

---------------------------------------------------------------------------
(* strconv, on texts whose numerals stay below 2^31 (TLC's integers).      *)

Pow2(b) == 2 ^ b

\* n <= 1<<bits - 1; a numeral of the model never reaches 2^32
FitsUint(n, bits) == bits >= 32 \/ n <= Pow2(bits) - 1

\* the value of byte c as a digit, or 99 when it is none
DigitVal(c) ==
    IF c >= 48 /\ c <= 57 THEN c - 48
    ELSE IF c >= 97 /\ c <= 122 THEN c - 97 + 10
    ELSE IF c >= 65 /\ c <= 90 THEN c - 65 + 10
    ELSE 99

Lower(c) == IF c >= 65 /\ c <= 90 THEN c + 32 ELSE c

\* the digit loop of strconv.ParseUint over digs from index i, n so far
RECURSIVE parseDigits(_, _, _, _, _)
parseDigits(digs, base, bits, i, n) ==
    IF i > Len(digs) THEN [x |-> n, e |-> ""]
    ELSE IF DigitVal(digs[i]) >= base THEN [x |-> 0, e |-> NumErrSyntax]
    ELSE IF ~FitsUint(n * base + DigitVal(digs[i]), bits)
         THEN [x |-> Pow2(bits) - 1, e |-> NumErrRange]
    ELSE parseDigits(digs, base, bits, i + 1, n * base + DigitVal(digs[i]))

\* strconv.ParseUint(s, 0, bits); the texts of the model hold no '_'
ParseUint(s, bits) ==
    IF s = <<>> THEN [x |-> 0, e |-> NumErrSyntax]
    ELSE IF s[1] = 48 /\ Len(s) >= 3 /\ Lower(s[2]) = 98
         THEN parseDigits(SubSeq(s, 3, Len(s)), 2, bits, 1, 0)
    ELSE IF s[1] = 48 /\ Len(s) >= 3 /\ Lower(s[2]) = 111
         THEN parseDigits(SubSeq(s, 3, Len(s)), 8, bits, 1, 0)
    ELSE IF s[1] = 48 /\ Len(s) >= 3 /\ Lower(s[2]) = 120
         THEN parseDigits(SubSeq(s, 3, Len(s)), 16, bits, 1, 0)
    ELSE IF s[1] = 48 THEN parseDigits(Tail(s), 8, bits, 1, 0)
    ELSE parseDigits(s, 10, bits, 1, 0)

\* strconv.ParseInt(s, 0, bits)
ParseInt(s, bits) ==
    IF s = <<>> THEN [x |-> 0, e |-> NumErrSyntax]
    ELSE LET neg == s[1] = 45
             rest == IF s[1] \in {43, 45} THEN Tail(s) ELSE s
             un == ParseUint(rest, bits)
         IN IF un.e = NumErrSyntax THEN [x |-> 0, e |-> NumErrSyntax]
            ELSE IF bits < 32 /\ ~neg /\ un.x >= Pow2(bits - 1)
                 THEN [x |-> Pow2(bits - 1) - 1, e |-> NumErrRange]
            ELSE IF bits < 32 /\ neg /\ un.x > Pow2(bits - 1)
                 THEN [x |-> 0 - Pow2(bits - 1), e |-> NumErrRange]
            ELSE [x |-> IF neg THEN 0 - un.x ELSE un.x, e |-> ""]

\* strconv.ParseBool
ParseBool(s) ==
    IF s \in {Txt(<<"1">>), Txt(<<"t">>), Txt(<<"T">>),
              Txt(<<"t", "r", "u", "e">>), Txt(<<"T", "R", "U", "E">>),
              Txt(<<"T", "r", "u", "e">>)}
    THEN [x |-> TRUE, e |-> ""]
    ELSE IF s \in {Txt(<<"0">>), Txt(<<"f">>), Txt(<<"F">>),
                   Txt(<<"f", "a", "l", "s", "e">>),
                   Txt(<<"F", "A", "L", "S", "E">>),
                   Txt(<<"F", "a", "l", "s", "e">>)}
    THEN [x |-> FALSE, e |-> ""]
    ELSE [x |-> FALSE, e |-> NumErrSyntax]

\* the decimal digits of s from index i on, n so far; -1 when a byte is no digit
RECURSIVE decimal(_, _, _)
decimal(s, i, n) ==
    IF i > Len(s) THEN n
    ELSE IF s[i] < 48 \/ s[i] > 57 THEN 0 - 1
    ELSE decimal(s, i + 1, n * 10 + (s[i] - 48))

\* strconv.ParseFloat and strconv.ParseComplex on the texts of the model: a
\* float is held as the integer it equals.  Without '.', 'e', 'x', 'i' and
\* the letters of inf and nan in a text, a text parses exactly when it is an
\* optional sign and one or more decimal digits.
ParseFloat(s) ==
    LET rest == IF s # <<>> /\ s[1] \in {43, 45} THEN Tail(s) ELSE s
    IN IF rest = <<>> \/ decimal(rest, 1, 0) < 0
       THEN [x |-> 0, e |-> NumErrSyntax]
       ELSE [x |-> IF s[1] = 45 THEN 0 - decimal(rest, 1, 0)
                   ELSE decimal(rest, 1, 0),
             e |-> ""]

\* strconv.ParseComplex on the texts of the model: the parentheses and an
\* imaginary part +0i are optional, and the complex number is held as the
\* integer its real part equals
ParseComplex(s) ==
    LET inner == IF Len(s) >= 2 /\ s[1] = 40 /\ s[Len(s)] = 41
                 THEN SubSeq(s, 2, Len(s) - 1) ELSE s
        k == Len(inner)
    IN IF k > 3 /\ SubSeq(inner, k - 2, k) = <<43, 48, 105>>
       THEN ParseFloat(SubSeq(inner, 1, k - 3))
       ELSE ParseFloat(inner)

\* the decimal digits of n >= 0
RECURSIVE digitsOf(_)
digitsOf(n) ==
    IF n < 10 THEN <<48 + n>> ELSE Append(digitsOf(n \div 10), 48 + (n % 10))

\* strconv.FormatInt(x, 10) and strconv.FormatUint(x, 10)
FormatInt(x) == IF x < 0 THEN <<45>> \o digitsOf(0 - x) ELSE digitsOf(x)

RECURSIVE stripZeros(_)
\* the digits d without their trailing zeros
stripZeros(d) ==
    IF Len(d) > 1 /\ d[Len(d)] = 48 THEN stripZeros(SubSeq(d, 1, Len(d) - 1))
    ELSE d

\* the %e form of the digits d: d.ddde+XX
expForm(d) ==
    LET m == stripZeros(d)
        e == digitsOf(Len(d) - 1)
    IN <<m[1]>> \o (IF Len(m) > 1 THEN <<46>> \o Tail(m) ELSE <<>>)
         \o <<101, 43>> \o (IF Len(e) < 2 THEN <<48>> ELSE <<>>) \o e

\* strconv.FormatFloat(x, 'g', -1, 64) of a float that equals the integer x:
\* the shortest form uses %e from exponent 6 on
FormatFloat(x) ==
    LET d == digitsOf(IF x < 0 THEN 0 - x ELSE x)
    IN (IF x < 0 THEN <<45>> ELSE <<>>) \o (IF Len(d) - 1 >= 6 THEN expForm(d) ELSE d)

\* strconv.FormatComplex(x, 'g', -1, 128) of a complex with imaginary part 0
FormatComplex(x) ==
    Txt(<<"(">>) \o FormatFloat(x) \o Txt(<<"+", "0", "i", ")">>)

\* strconv.FormatBool
FormatBool(b) ==
    IF b THEN Txt(<<"t", "r", "u", "e">>) ELSE Txt(<<"f", "a", "l", "s", "e">>)

\* string(rune(x)): the UTF-8 encoding of code point x, of U+FFFD when x is
\* negative, a surrogate half or beyond U+10FFFF
Utf8(x) ==
    IF x < 0 \/ x > 1114111 \/ (x >= 55296 /\ x <= 57343) THEN <<239, 191, 189>>
    ELSE IF x < 128 THEN <<x>>
    ELSE IF x < 2048 THEN <<192 + (x \div 64), 128 + (x % 64)>>
    ELSE IF x < 65536
         THEN <<224 + (x \div 4096), 128 + ((x \div 64) % 64), 128 + (x % 64)>>
    ELSE <<240 + (x \div 262144), 128 + ((x \div 4096) % 64),
           128 + ((x \div 64) % 64), 128 + (x % 64)>>

---------------------------------------------------------------------------
(* The primitive codec (value-int.go, value-uint.go, val_*.go). *)

intSize(v, bitSize) ==
    [x |-> ParseInt(v, bitSize).x, err |-> kindWrapped(ParseInt(v, bitSize).e)]

uintSize(v, bitSize) ==
    [x |-> ParseUint(v, bitSize).x, err |-> kindWrapped(ParseUint(v, bitSize).e)]

floatSize(v, bitSize) ==
    [x |-> ParseFloat(v).x, err |-> kindWrapped(ParseFloat(v).e)]

complexSize(v, bitSize) ==
    [x |-> ParseComplex(v).x, err |-> kindWrapped(ParseComplex(v).e)]

\* Value.Bool
Bool(v) == [x |-> ParseBool(v).x, err |-> kindWrapped(ParseBool(v).e)]

\* Value.IsEmpty
IsEmpty(v) == v = <<>>

\* Value.Rune
Rune(v) == IF IsEmpty(v) THEN 0 ELSE v[1]

---------------------------------------------------------------------------
(* Values (reflect.Value).  A pointer is <<>> when nil and <<v>> when it   *)
(* points to v; a string, a slice and the content of a struct are          *)
(* sequences; an array is a sequence of its length; a map is a record      *)
(* [nil, m] with m a function; numbers are integers.                       *)

RECURSIVE Zero(_)
\* reflect.Zero(t), the value reflect.New(t).Elem() holds
Zero(t) ==
    IF t.p > 0 THEN <<>>
    ELSE CASE NameKind(t.n) = "bool" -> FALSE
           [] NameKind(t.n) \in IntNames \cup UintNames \cup FloatNames
                                \cup ComplexNames -> 0
           [] NameKind(t.n) = "array" -> [i \in 1..ArrayLen(t) |-> Zero(Elem(t))]
           [] NameKind(t.n) = "map" -> [nil |-> TRUE, m |-> EmptyMap]
           [] OTHER -> <<>>

RECURSIVE LeafOf(_, _)
\* the value at the end of the pointer chain v of type t; a nil pointer on
\* the way is replaced by reflect.New, so the value is then the zero value
LeafOf(t, v) ==
    IF t.p = 0 THEN v
    ELSE IF v = <<>> THEN Zero(Ty(t.n))
    ELSE LeafOf(Elem(t), v[1])

RECURSIVE Alloc(_, _)
\* a chain of p non-nil pointers that ends in leaf
Alloc(p, leaf) == IF p = 0 THEN leaf ELSE <<Alloc(p - 1, leaf)>>

RECURSIVE NilDepth(_, _)
\* how many pointers of the chain v of type t are non-nil
NilDepth(t, v) ==
    IF t.p = 0 \/ v = <<>> THEN 0 ELSE 1 + NilDepth(Elem(t), v[1])

---------------------------------------------------------------------------
(* Options (options.go) and the strings functions used by decode.go. *)

DefaultItemsSeparator == Txt(<<",">>)
DefaultKeyValueSeparator == Txt(<<"=">>)

\* the zero Options of the global unmarshaler and marshaler
ZeroOptions == [ItemsSeparator |-> <<>>, KeyValueSeparator |-> <<>>]

itemSeparator(o) ==
    IF o.ItemsSeparator = <<>> THEN DefaultItemsSeparator ELSE o.ItemsSeparator

keyValueSeparator(o) ==
    IF o.KeyValueSeparator = <<>> THEN DefaultKeyValueSeparator
    ELSE o.KeyValueSeparator

\* strings.Index(s, sep) + 1 for a non-empty sep, 0 when sep is not in s
Index(s, sep) ==
    LET at == {i \in 1..(Len(s) - Len(sep) + 1) :
                    SubSeq(s, i, i + Len(sep) - 1) = sep}
    IN IF at = {} THEN 0 ELSE CHOOSE i \in at : \A j \in at : i <= j

RECURSIVE split(_, _)
\* split(str, sep) = strings.Split(str, sep) for a non-empty sep
split(str, sep) ==
    IF Index(str, sep) = 0 THEN <<str>>
    ELSE <<SubSeq(str, 1, Index(str, sep) - 1)>>
            \o split(SubSeq(str, Index(str, sep) + Len(sep), Len(str)), sep)

\* a variant of SplitN2: the text is split at every separator
SplitN2Mut(s, sep) == split(s, sep)

\* strings.SplitN(s, sep, 2)
SplitN2(s, sep) ==
    IF Index(s, sep) = 0 THEN <<s>>
    ELSE <<SubSeq(s, 1, Index(s, sep) - 1),
           SubSeq(s, Index(s, sep) + Len(sep), Len(s))>>

IsSpace(c) == c \in {9, 10, 11, 12, 13, 32}

RECURSIVE TrimSpace(_)
\* strings.TrimSpace on single-byte white space
TrimSpace(s) ==
    IF s = <<>> THEN s
    ELSE IF IsSpace(s[1]) THEN TrimSpace(Tail(s))
    ELSE IF IsSpace(s[Len(s)]) THEN TrimSpace(SubSeq(s, 1, Len(s) - 1))
    ELSE s

---------------------------------------------------------------------------
(* The registered converters (register.go, part_007, value-duration.go,    *)
(* value-int.go) and UnmarshalFunc.Exec (decode.go).                       *)
(* A result is [err, v, calls, panic]: the error returned, the value the   *)
(* destination holds afterwards, the converters invoked with their         *)
(* argument, and the message of a panic ("" when there was none).          *)

Result(err, v, calls, panic) ==
    [err |-> err, v |-> v, calls |-> calls, panic |-> panic]

\* UnmarshalText of a type outside the package: it keeps the text, and
\* refuses a text that holds the letter a
UnmarshalText(val, leaf) ==
    IF 97 \in Range(val) THEN [err |-> Err(ErrForeign), v |-> leaf]
    ELSE [err |-> NoErr, v |-> val]

\* time.ParseDuration on the texts of the model, which hold no unit: only
\* a signed or unsigned 0 parses
ParseDuration(s) ==
    IF s \in {Txt(<<"0">>), Txt(<<"-", "0">>), Txt(<<"+", "0">>)}
    THEN NoErr ELSE Err("time: invalid duration")

\* url.ParseRequestURI, as far as the package looks at it: a text that
\* starts with a slash parses
ParseRequestURI(s) ==
    IF s # <<>> /\ s[1] = 47 THEN NoErr ELSE Err("invalid URI for request")

unmarshalText(val, n, leaf) ==
    IF "TextUnmarshaler" \notin PointerMethods(n)
    THEN Result(NoErr, leaf, <<>>, panicInterfaceConversion)
    ELSE Result(UnmarshalText(val, leaf).err, UnmarshalText(val, leaf).v, <<>>, "")

unmarshalRune(val, n, leaf) ==
    IF n # "int32" THEN Result(NoErr, leaf, <<>>, panicInterfaceConversion)
    ELSE IF Len(val) > 1 THEN Result(Err(ErrRuneTooManyChars), Rune(val), <<>>, "")
    ELSE Result(NoErr, Rune(val), <<>>, "")

unmarshalDuration(val, n, leaf) ==
    IF IsEmpty(val) THEN Result(NoErr, leaf, <<>>, "")
    ELSE IF n # "Duration" THEN Result(NoErr, leaf, <<>>, panicInterfaceConversion)
    ELSE IF ParseDuration(val) # NoErr
         THEN Result(Wrap(ParseDuration(val), ErrParseFailure), 0, <<>>, "")
    ELSE Result(NoErr, 0, <<>>, "")

unmarshalUrl(val, n, leaf) ==
    IF IsEmpty(val) THEN Result(NoErr, leaf, <<>>, "")
    ELSE IF n # "URL" THEN Result(NoErr, leaf, <<>>, panicInterfaceConversion)
    ELSE IF ParseRequestURI(val) # NoErr
         THEN Result(Wrap(ParseRequestURI(val), ErrParseFailure), leaf, <<>>, "")
    ELSE Result(NoErr, val, <<>>, "")

\* an UnmarshalFunc registered by the program, as in ExampleUnmarshaler_Register:
\* it keeps the text in a struct and leaves any other destination alone
userFunc(val, n, leaf) ==
    IF NameKind(n) = "struct" THEN Result(NoErr, val, <<>>, "")
    ELSE Result(NoErr, leaf, <<>>, "")

\* fn(val, dest.Interface()), dest a pointer to the value leaf of type n
call(fn, val, n, leaf) ==
    CASE fn = "unmarshalText" -> unmarshalText(val, n, leaf)
      [] fn = "unmarshalRune" -> unmarshalRune(val, n, leaf)
      [] fn = "unmarshalDuration" -> unmarshalDuration(val, n, leaf)
      [] fn = "unmarshalUrl" -> unmarshalUrl(val, n, leaf)
      [] OTHER -> userFunc(val, n, leaf)

\* a variant of exec: the error of the function is returned as it is
execMut(fn, val, n, leaf) ==
    LET r == call(fn, val, n, leaf)
    IN Result(r.err, r.v, <<[fn |-> fn, arg |-> val]>>, r.panic)

\* UnmarshalFunc.exec
exec(fn, val, n, leaf) ==
    LET r == call(fn, val, n, leaf)
    IN Result(IF r.err # NoErr THEN Wrap(r.err, ErrUnmarshalFuncExec) ELSE NoErr,
              r.v, <<[fn |-> fn, arg |-> val]>>, r.panic)

\* UnmarshalFunc.Exec on dest = [t, v, set]: its type, its value, and whether
\* the reflect.Value is addressable and settable
Exec(fn, val, dest) ==
    IF fn = panicInvalidFuncIndex THEN Result(NoErr, dest.v, <<>>, fn)
    ELSE IF Kind(dest.t) # "ptr"
    THEN IF ~dest.set THEN Result(Err(ErrUnableToAddr), dest.v, <<>>, "")
         ELSE exec(fn, val, dest.t.n, dest.v)
    ELSE IF dest.v = <<>> /\ ~dest.set
    THEN Result(Err(ErrUnableToSet), dest.v, <<>>, "")
    ELSE LET r == exec(fn, val, dest.t.n, LeafOf(dest.t, dest.v))
         IN [r EXCEPT !.v = Alloc(dest.t.p, r.v)]

---------------------------------------------------------------------------
(* Unmarshaler.unmarshal (decode.go).  u = [Options, register] is the      *)
(* Unmarshaler, g the register of the global one, o = [l, g] the map       *)
(* iteration orders of the two registers.                                  *)

\* a fresh reflect.New(typ).Elem()
NewElem(typ) == [t |-> typ, v |-> Zero(typ), set |-> TRUE]

\* a variant of elemNested: elements are decoded as top-level values
elemNestedMut == FALSE

\* the nested argument of the calls of unmarshal for an element, a key or a
\* value
elemNested == TRUE

\* a variant of tooManyValues: an array filled to its length is refused
tooManyValuesMut(partsLen, arrayLen) == partsLen >= arrayLen

\* partsLen > arrayLen, the test after the loop of case reflect.Array
tooManyValues(partsLen, arrayLen) == partsLen > arrayLen

\* a variant of setIndex: the element and all elements after it are set
setIndexMut(arr, i, val) == [j \in DOMAIN arr |-> IF j >= i THEN val ELSE arr[j]]

\* dest.Index(i).Set(val), i counted from 1
setIndex(arr, i, val) == [arr EXCEPT ![i] = val]

\* a variant of unsupportedType: the error names the type behind the pointers
unsupportedTypeMut(ot, typ) == UnsupportedTypeError(typ)

\* the error of the default case: it names ot, the type unmarshal was called
\* with, and not typ, the type behind its pointers
unsupportedType(ot, typ) == UnsupportedTypeError(ot)

\* a variant of SetMapIndex: a key the map holds keeps its value
SetMapIndexMut(m, key, val) == IF key \in DOMAIN m THEN m ELSE Put(m, key, val)

\* dest.SetMapIndex(key, val)
SetMapIndex(m, key, val) == Put(m, key, val)

\* a variant of failedSlice: the elements decoded so far are set
failedSliceMut(dest, slice) == slice

\* what dest holds when an element of case reflect.Slice fails: the return
\* inside the loop comes before dest.Set(slice), so dest keeps its value and
\* the new slice is dropped
failedSlice(dest, slice) == dest

funcHitMut(fn, v) == fn # Nil /\ ~IsEmpty(v)

\* if fn := u.Func(dest.Type()); fn != nil: the first test of unmarshal, made
\* whatever the Value v is
funcHit(fn, v) == fn # Nil

RECURSIVE unmarshal(_, _, _, _, _, _)
RECURSIVE arrayLoop(_, _, _, _, _, _, _)
RECURSIVE sliceLoop(_, _, _, _, _, _, _)
RECURSIVE mapLoop(_, _, _, _, _, _, _)

\* the loop of case reflect.Array from index i (counted from 1), arr being
\* the array so far; typ is the array type
arrayLoop(u, g, parts, typ, arr, i, o) ==
    IF i > Len(parts) \/ i > ArrayLen(typ)
    THEN Result(IF tooManyValues(Len(parts), ArrayLen(typ))
                THEN Err(ErrArrayTooManyValues) ELSE NoErr, arr, <<>>, "")
    ELSE LET r == unmarshal(u, g, TrimSpace(parts[i]), NewElem(Elem(typ)),
                            elemNested, o)
         IN IF r.err # NoErr \/ r.panic # ""
            THEN Result(r.err, arr, r.calls, r.panic)
            ELSE LET rest == arrayLoop(u, g, parts, typ,
                                       setIndex(arr, i, r.v), i + 1, o)
                 IN [rest EXCEPT !.calls = r.calls \o rest.calls]

\* the loop of case reflect.Slice from part i, slice being the new slice so
\* far; the result holds the new slice, which the caller sets on success
sliceLoop(u, g, parts, typ, slice, i, o) ==
    IF i > Len(parts) THEN Result(NoErr, slice, <<>>, "")
    ELSE LET r == unmarshal(u, g, TrimSpace(parts[i]), NewElem(Elem(typ)),
                            elemNested, o)
         IN IF r.err # NoErr \/ r.panic # ""
            THEN Result(r.err, slice, r.calls, r.panic)
            ELSE LET rest == sliceLoop(u, g, parts, typ,
                                       Append(slice, r.v), i + 1, o)
                 IN [rest EXCEPT !.calls = r.calls \o rest.calls]

\* the loop of case reflect.Map from part i, m being the entries so far
mapLoop(u, g, parts, typ, m, i, o) ==
    IF i > Len(parts) THEN Result(NoErr, m, <<>>, "")
    ELSE LET kv == SplitN2(parts[i], keyValueSeparator(u.Options))
         IN IF Len(kv) # 2 THEN Result(Err(ErrMapInvalidFormat), m, <<>>, "")
            ELSE LET key == unmarshal(u, g, kv[1], NewElem(Key(typ)),
                                      elemNested, o)
                 IN IF key.err # NoErr \/ key.panic # ""
                    THEN Result(key.err, m, key.calls, key.panic)
                    ELSE LET val == unmarshal(u, g, kv[2], NewElem(Elem(typ)),
                                              elemNested, o)
                         IN IF val.err # NoErr \/ val.panic # ""
                            THEN Result(val.err, m, key.calls \o val.calls,
                                        val.panic)
                            ELSE LET rest == mapLoop(u, g, parts, typ,
                                                SetMapIndex(m, key.v, val.v),
                                                i + 1, o)
                                 IN [rest EXCEPT !.calls =
                                        key.calls \o val.calls \o rest.calls]

\* the switch on dest.Kind() of unmarshal, dest being the value leaf of the
\* non-pointer type typ; ot is the type unmarshal was called with
switchKind(u, g, v, typ, leaf, ot, nested, o) ==
    LET k == Kind(typ)
    IN CASE k = "string" -> Result(NoErr, v, <<>>, "")
         [] k = "bool" -> Result(Bool(v).err, Bool(v).x, <<>>, "")
         [] k \in IntNames ->
              Result(intSize(v, Bits(typ)).err, intSize(v, Bits(typ)).x, <<>>, "")
         [] k \in UintNames ->
              Result(uintSize(v, Bits(typ)).err, uintSize(v, Bits(typ)).x, <<>>, "")
         [] k \in FloatNames ->
              Result(floatSize(v, Bits(typ)).err, floatSize(v, Bits(typ)).x,
                     <<>>, "")
         [] k \in ComplexNames ->
              Result(complexSize(v, Bits(typ)).err, complexSize(v, Bits(typ)).x,
                     <<>>, "")
         [] k = "array" ->
              IF nested THEN Result(Err(ErrUnmarshalNested), leaf, <<>>, "")
              ELSE arrayLoop(u, g, split(v, itemSeparator(u.Options)), typ,
                             leaf, 1, o)
         [] k = "slice" ->
              IF nested THEN Result(Err(ErrUnmarshalNested), leaf, <<>>, "")
              ELSE LET r == sliceLoop(u, g, split(v, itemSeparator(u.Options)),
                                      typ, <<>>, 1, o)
                   IN IF r.err # NoErr \/ r.panic # ""
                      THEN [r EXCEPT !.v = failedSlice(leaf, r.v)] ELSE r
         [] k = "map" ->
              IF nested THEN Result(Err(ErrUnmarshalNested), leaf, <<>>, "")
              ELSE LET r == mapLoop(u, g, split(v, itemSeparator(u.Options)),
                                    typ, leaf.m, 1, o)
                   IN [r EXCEPT !.v = [nil |-> FALSE, m |-> r.v]]
         [] OTHER -> Result(unsupportedType(ot, typ), leaf, <<>>, "")

\* Unmarshaler.unmarshal(v, dest, nested)
unmarshal(u, g, v, dest, nested, o) ==
    IF funcHit(Func(u.register, g, dest.t, o.l, o.g), v)
    THEN Exec(Func(u.register, g, dest.t, o.l, o.g), v, dest)
    ELSE IF IsEmpty(v) THEN Result(NoErr, dest.v, <<>>, "")
    ELSE IF Kind(dest.t) = "ptr" /\ dest.v = <<>> /\ ~dest.set
    THEN Result(Err(ErrUnableToSet), dest.v, <<>>, "")
    ELSE LET r == switchKind(u, g, v, Ty(dest.t.n), LeafOf(dest.t, dest.v),
                             dest.t, nested, o)
         IN [r EXCEPT !.v = Alloc(dest.t.p, r.v)]

---------------------------------------------------------------------------
(* Marshaler.marshal and MarshalFunc.exec (part_006), and the registered   *)
(* MarshalFuncs.  A result is [str, err, calls, panic].                    *)

MResult(str, err, calls, panic) ==
    [str |-> str, err |-> err, calls |-> calls, panic |-> panic]

\* marshalText(v), v a value of the non-pointer type n: MarshalText of a type
\* outside the package returns the text the value keeps
marshalText(n, x) ==
    IF "TextMarshaler" \notin ValueMethods(n)
    THEN MResult(<<>>, NoErr, <<>>, panicInterfaceConversion)
    ELSE MResult(x, NoErr, <<>>, "")

marshalRune(n, x) ==
    IF n # "int32" THEN MResult(<<>>, NoErr, <<>>, panicInterfaceConversion)
    ELSE MResult(Utf8(x), NoErr, <<>>, "")

\* time.Duration.String of the one duration of the model, 0
marshalDuration(n, x) ==
    IF n # "Duration" THEN MResult(<<>>, NoErr, <<>>, panicInterfaceConversion)
    ELSE MResult(Txt(<<"0", "s">>), NoErr, <<>>, "")

\* url.URL.String: the text the URL was parsed from
marshalUrl(n, x) ==
    IF n # "URL" THEN MResult(<<>>, NoErr, <<>>, panicInterfaceConversion)
    ELSE MResult(x, NoErr, <<>>, "")

\* fn(val.Interface()), val the value x of the non-pointer type n
mcall(fn, n, x) ==
    CASE fn = "marshalText" -> marshalText(n, x)
      [] fn = "marshalRune" -> marshalRune(n, x)
      [] fn = "marshalDuration" -> marshalDuration(n, x)
      [] fn = "marshalUrl" -> marshalUrl(n, x)
      [] OTHER -> MResult(Txt(<<"u">>), NoErr, <<>>, "")

execNilMut(t, x) == FALSE

\* the loop of MarshalFunc.exec over the pointers of val, of type t, meets a
\* nil one
execNil(t, x) == NilDepth(t, x) < t.p

\* MarshalFunc.exec(val), val of type t
mexec(fn, t, x) ==
    IF fn = panicInvalidFuncIndex THEN MResult(<<>>, NoErr, <<>>, fn)
    ELSE IF execNil(t, x) THEN MResult(<<>>, NoErr, <<>>, "")
    ELSE LET r == mcall(fn, t.n, LeafOf(t, x))
         IN [r EXCEPT !.calls = <<[fn |-> fn, arg |-> <<>>]>>]

RECURSIVE marshal(_, _, _, _, _, _)
RECURSIVE mArrayLoop(_, _, _, _, _, _)
RECURSIVE mMapLoop(_, _, _, _, _, _)

\* the loop of case reflect.Array, reflect.Slice over x from index i
mArrayLoop(m, g, typ, x, i, o) ==
    IF i > Len(x) THEN MResult(<<>>, NoErr, <<>>, "")
    ELSE LET r == marshal(m, g, Elem(typ), x[i], TRUE, o)
         IN IF r.err # NoErr \/ r.panic # ""
            THEN MResult(<<>>, r.err, r.calls, r.panic)
            ELSE LET rest == mArrayLoop(m, g, typ, x, i + 1, o)
                 IN IF rest.err # NoErr \/ rest.panic # ""
                    THEN [rest EXCEPT !.calls = r.calls \o rest.calls]
                    ELSE MResult((IF i > 1 THEN itemSeparator(m.Options)
                                  ELSE <<>>) \o r.str \o rest.str,
                                 NoErr, r.calls \o rest.calls, "")

\* the loop of case reflect.Map over the entries of x, MapRange visiting
\* the keys in the order o.m, from its index i
mMapLoop(m, g, typ, x, i, o) ==
    IF i > Len(o.m) THEN MResult(<<>>, NoErr, <<>>, "")
    ELSE LET v == marshal(m, g, Elem(typ), x.m[o.m[i]], TRUE, o)
         IN IF v.err # NoErr \/ v.panic # ""
            THEN MResult(<<>>, v.err, v.calls, v.panic)
            ELSE LET k == marshal(m, g, Key(typ), o.m[i], TRUE, o)
                 IN IF k.err # NoErr \/ k.panic # ""
                    THEN MResult(<<>>, k.err, v.calls \o k.calls, k.panic)
                    ELSE LET rest == mMapLoop(m, g, typ, x, i + 1, o)
                         IN IF rest.err # NoErr \/ rest.panic # ""
                            THEN [rest EXCEPT !.calls =
                                        v.calls \o k.calls \o rest.calls]
                            ELSE MResult(
                                   (IF i > 1 THEN itemSeparator(m.Options)
                                    ELSE <<>>) \o k.str
                                    \o keyValueSeparator(m.Options) \o v.str
                                    \o rest.str,
                                   NoErr, v.calls \o k.calls \o rest.calls, "")

refuseNestedMut(nested) == FALSE

\* if nested { return "", errors.New(ErrMarshalNested) }
refuseNested(nested) == nested

\* the switch on val.Kind() of marshal, val being the value x of the
\* non-pointer type typ
mSwitchKind(m, g, typ, x, ot, nested, o) ==
    LET k == Kind(typ)
    IN CASE k = "string" -> MResult(x, NoErr, <<>>, "")
         [] k = "bool" -> MResult(FormatBool(x), NoErr, <<>>, "")
         [] k \in IntNames \cup UintNames ->
              MResult(FormatInt(x), NoErr, <<>>, "")
         [] k \in FloatNames -> MResult(FormatFloat(x), NoErr, <<>>, "")
         [] k \in ComplexNames -> MResult(FormatComplex(x), NoErr, <<>>, "")
         [] k \in {"array", "slice"} ->
              IF refuseNested(nested)
              THEN MResult(<<>>, Err(ErrMarshalNested), <<>>, "")
              ELSE mArrayLoop(m, g, typ, x, 1, o)
         [] k = "map" ->
              IF refuseNested(nested)
              THEN MResult(<<>>, Err(ErrMarshalNested), <<>>, "")
              ELSE mMapLoop(m, g, typ, x, 1, o)
         [] OTHER -> MResult(<<>>, UnsupportedTypeError(ot), <<>>, "")

\* Marshaler.marshal(val, nested), val the value x of type t
marshal(m, g, t, x, nested, o) ==
    IF Func(m.register, g, t, o.l, o.g) # Nil
    THEN mexec(Func(m.register, g, t, o.l, o.g), t, x)
    ELSE IF NilDepth(t, x) < t.p THEN MResult(<<>>, NoErr, <<>>, "")
    ELSE mSwitchKind(m, g, Ty(t.n), LeafOf(t, x), t, nested, o)

---------------------------------------------------------------------------
(* The calls the model makes. *)

Alphabet == {Ord("0"), Ord("1"), Ord("9"), Ord("-"), Ord(","), Ord("="),
             Ord(" "), Ord("a")}

RECURSIVE TextsOfLen(_)
TextsOfLen(k) ==
    IF k = 0 THEN {<<>>}
    ELSE {Append(t, c) : t \in TextsOfLen(k - 1), c \in Alphabet}

\* longer texts: the examples of the documentation and the tests, and the
\* numerals at the edges of the 8 and 16 bit ranges
LongTexts ==
    {Txt(<<"1", ",", "2", ",", "3">>), Txt(<<"a", "=", "b", "=", "c">>),
     Txt(<<"a", "=", "1", ",", "b", "=", "2">>), Txt(<<"a", "=", "1", ",", "b">>),
     Txt(<<"1", ",", "a", ",", "2">>), Txt(<<"1", ",", " ", "2">>),
     Txt(<<"a", "=", "1", ",", "a", "=", "2">>),
     Txt(<<"1", "=", "a", ",", "a", "=", "b">>),
     Txt(<<"t", "r", "u", "e">>), Txt(<<"f", "a", "l", "s", "e">>),
     Txt(<<"t">>), Txt(<<"/", "a">>), Txt(<<"/", "1">>),
     Txt(<<"1", "2", "7">>), Txt(<<"1", "2", "8">>), Txt(<<"-", "1", "2", "8">>),
     Txt(<<"-", "1", "2", "9">>), Txt(<<"2", "5", "5">>), Txt(<<"2", "5", "6">>),
     Txt(<<"3", "2", "7", "6", "7">>), Txt(<<"3", "2", "7", "6", "8">>),
     Txt(<<"-", "3", "2", "7", "6", "8">>), Txt(<<"-", "3", "2", "7", "6", "9">>),
     Txt(<<"6", "5", "5", "3", "5">>), Txt(<<"6", "5", "5", "3", "6">>),
     Txt(<<"0", "x", "1", "f">>), Txt(<<"0", "1", "7">>), Txt(<<"-", "1", "0">>),
     Txt(<<"1", "3", "3", "7">>), Txt(<<"1", ",", "9">>), Txt(<<"a", "=", "1">>),
     Txt(<<"1", "=", "a">>), Txt(<<"a", ",", "a">>), Txt(<<" ", "1", " ">>),
     Txt(<<"1", "9", "9">>), Txt(<<"9", "9", "9">>), Txt(<<"-", "1", "9">>),
     Txt(<<"0", "1", "9">>), Txt(<<"a", "=", "=">>), Txt(<<"1", ",", ",">>),
     Txt(<<"a", "=", ",">>), Txt(<<" ", ",", " ">>), Txt(<<"1", ",", " ">>),
     Txt(<<"a", "=", "a", ",", "a", "=", "=">>),
     Txt(<<"1", ",", "9", "9", "9">>), Txt(<<"a", "=", "9", "9", "9">>),
     Txt(<<"9", "9", "9", "=", "a">>)}

Inputs == UNION {TextsOfLen(k) : k \in 0..MaxLen} \cup LongTexts

CompositeNames ==
    {"[]int8", "[]string", "[]*int8", "[][]int8", "[]TextSlice",
     "[]map[string]string", "[0]int8", "[1]int8", "[2]int8", "[3]int8",
     "[2]string", "[1][2]int8", "[0][2]int8", "[2][]int8",
     "map[string]string", "map[string]int8", "map[int8]string",
     "map[string]map[string]string", "map[string][]int8", "map[int8][]int8",
     "map[[1]int8]string"}

\* the named types a destination variable has
DestNames == PrimNames \cup CompositeNames
                \cup {"Duration", "URL", "TextBoth", "OnlyU", "OnlyM", "PtrM",
                      "Struct", "TextSlice", "chan"}

\* the named types also used behind more than one pointer, and as a
\* non-pointer or nil argument
DeepNames == {"int8", "int32", "string", "[2]int8", "map[string]string",
              "TextBoth", "OnlyM", "chan"}

\* how many values besides the zero value a variable of the named type
\* holds before a call
Samples(n) ==
    CASE n \in {"int8", "int32", "uint8", "string", "TextBoth", "bool",
                "[1]int8", "[2]int8", "[3]int8", "[2]string", "[]int8",
                "map[string]int8"} -> 1
      [] n = "map[string]string" -> 2
      [] OTHER -> 0

\* value number s of the named type: number 0 is the zero value
BaseValue(n, s) ==
    IF s = 0 THEN Zero(Ty(n))
    ELSE CASE n \in {"int8", "int32", "uint8"} -> 5
           [] n \in {"string", "TextBoth", "OnlyM", "PtrM", "TextSlice", "URL"} ->
                Txt(<<"9">>)
           [] n = "bool" -> TRUE
           [] n = "[1]int8" -> <<7>>
           [] n = "[2]int8" -> <<7, 7>>
           [] n = "[3]int8" -> <<7, 7, 7>>
           [] n = "[2]string" -> <<Txt(<<"9">>), Txt(<<"9">>)>>
           [] n = "[]int8" -> <<7, 7, 7>>
           [] n = "map[string]int8" ->
                [nil |-> FALSE, m |-> Put(EmptyMap, Txt(<<"a">>), 7)]
           [] n = "map[string]string" ->
                IF s = 1 THEN [nil |-> FALSE, m |-> EmptyMap]
                ELSE [nil |-> FALSE,
                      m |-> Put(Put(EmptyMap, Txt(<<"a">>), Txt(<<"9">>)),
                                Txt(<<"9">>), Txt(<<"9">>))]

RECURSIVE Chain(_, _, _)
\* a chain of p pointers of which the first a are non-nil; it ends in leaf
\* when a = p
Chain(p, a, leaf) ==
    IF p = 0 THEN leaf ELSE IF a = 0 THEN <<>> ELSE <<Chain(p - 1, a - 1, leaf)>>

\* The arguments v of Unmarshal(val, v), each [n, p, a, s]: v is of type n
\* behind p pointers, of which the first a are non-nil, and ends in value
\* number s.  They are a pointer to a variable of every type of DestNames,
\* and for DeepNames also a non-pointer, a nil pointer and pointers to
\* pointers.
Args ==
    UNION {{[n |-> n, p |-> 1, a |-> 1, s |-> s] : s \in 0..Samples(n)} :
                n \in DestNames}
    \cup {[n |-> n, p |-> 0, a |-> 0, s |-> 0] : n \in DeepNames \cup {"nil"}}
    \cup {[n |-> n, p |-> 1, a |-> 0, s |-> 0] : n \in DeepNames}
    \cup UNION {{[n |-> n, p |-> p, a |-> a, s |-> 0] : a \in 0..p}
                    \cup {[n |-> n, p |-> p, a |-> p, s |-> s] :
                            s \in 1..Samples(n)} :
                n \in DeepNames, p \in 2..MaxPtr}

\* reflect.ValueOf(v) of the argument d
ValueOf(d) ==
    [t |-> [n |-> d.n, p |-> d.p], v |-> Chain(d.p, d.a, BaseValue(d.n, d.s)),
     set |-> FALSE]

\* the global Unmarshaler (var unmarshaler) and Marshaler (var marshaler)
GlobalUnmarshaler == [Options |-> ZeroOptions, register |-> ureg]
GlobalMarshaler == [Options |-> ZeroOptions, register |-> mreg]

pointerExpectedMut(rv) == Kind(rv.t) # "ptr"

\* rv.Kind() != reflect.Ptr || rv.IsNil(); reflect.ValueOf(nil) is the zero
\* Value, of kind Invalid
pointerExpected(rv) == Kind(rv.t) # "ptr" \/ rv.v = <<>>

\* func Unmarshal(val, v), rv being reflect.ValueOf(v)
Unmarshal(val, rv, o) ==
    IF pointerExpected(rv)
    THEN Result(Err(ErrPointerExpected), rv.v, <<>>, "")
    ELSE unmarshal(GlobalUnmarshaler, ureg, val, rv, FALSE, o)

\* func Marshal(v), v the value x of type t
Marshal(t, x, o) == marshal(GlobalMarshaler, mreg, t, x, FALSE, o)

NoRes == [op |-> "none"]

\* the add calls of func init()
InitHist ==
    <<[reg |-> "unmarshaler", t |-> Ty("TextMarshaler"), fn |-> "unmarshalText"],
      [reg |-> "marshaler", t |-> Ty("TextMarshaler"), fn |-> "marshalText"],
      [reg |-> "unmarshaler", t |-> Ty("int32"), fn |-> "unmarshalRune"],
      [reg |-> "marshaler", t |-> Ty("int32"), fn |-> "marshalRune"],
      [reg |-> "unmarshaler", t |-> Ty("Duration"), fn |-> "unmarshalDuration"],
      [reg |-> "marshaler", t |-> Ty("Duration"), fn |-> "marshalDuration"],
      [reg |-> "unmarshaler", t |-> Ty("URL"), fn |-> "unmarshalUrl"],
      [reg |-> "marshaler", t |-> Ty("URL"), fn |-> "marshalUrl"]>>

Init ==
    /\ pc = "idle"
    /\ ureg = InitUnmarshalRegister
    /\ mreg = InitMarshalRegister
    /\ lreg = ZeroRegister
    /\ lmreg = ZeroRegister
    /\ lreg2 = ZeroRegister
    /\ hist = InitHist
    /\ res = NoRes

\* a call of Unmarshal(val, v)
UnmarshalCall ==
    /\ pc = "idle"
    /\ \E val \in Inputs, d \in Args, go \in IterOrders(ureg) :
        LET rv == ValueOf(d)
            r == Unmarshal(val, rv, [l |-> go, g |-> go, m |-> <<>>])
        IN res' = [op |-> "Unmarshal", val |-> val, t |-> rv.t,
                   before |-> rv.v, after |-> r.v, err |-> r.err,
                   calls |-> r.calls, panic |-> r.panic]
    /\ pc' = "done"
    /\ UNCHANGED <<ureg, mreg, lreg, lmreg, lreg2, hist>>

\* the values of the primitive kinds that are marshalled and decoded again
RoundTripValues(n) ==
    CASE n = "string" -> Inputs
      [] n = "bool" -> {TRUE, FALSE}
      [] n = "int8" -> (0 - 128)..127
      [] n = "uint8" -> 0..255
      [] n \in {"uint16", "uint32", "uint64", "uint"} ->
            {0, 1, 9, 10, 127, 128, 255, 256, 32767, 32768, 65535}
      [] n \in IntNames ->
            {0 - 32768, 0 - 129, 0 - 128, 0 - 10, 0 - 1, 0, 1, 9, 10, 65, 127,
             128, 255, 256, 2047, 2048, 32767}
      [] n \in FloatNames \cup ComplexNames -> {0 - 10, 0, 1, 12, 999999}

\* the non-zero value of the named type that is marshalled
MSample(n) ==
    CASE n \in {"int8", "int32", "uint8", "string", "bool", "TextBoth", "OnlyM",
                "PtrM", "TextSlice", "URL", "[1]int8", "[2]int8", "[3]int8",
                "[2]string", "[]int8", "map[string]int8"} -> BaseValue(n, 1)
      [] n = "map[string]string" -> BaseValue(n, 2)
      [] n = "[]string" -> <<Txt(<<"a">>), <<>>, Txt(<<"9">>)>>
      [] n = "[]*int8" -> << <<5>>, <<>> >>
      [] n = "[][]int8" -> << <<7>> >>
      [] n = "[]TextSlice" -> <<Txt(<<"9">>), Txt(<<"a">>)>>
      [] n = "[]map[string]string" -> <<[nil |-> FALSE, m |-> EmptyMap]>>
      [] n = "map[int8]string" ->
            [nil |-> FALSE, m |-> Put(Put(EmptyMap, 5, Txt(<<"a">>)), 0 - 1, <<>>)]
      [] n = "map[string]map[string]string" ->
            [nil |-> FALSE,
             m |-> Put(EmptyMap, Txt(<<"a">>), [nil |-> FALSE, m |-> EmptyMap])]
      [] n \in {"map[string][]int8"} ->
            [nil |-> FALSE, m |-> Put(EmptyMap, Txt(<<"a">>), <<7>>)]
      [] n = "map[int8][]int8" -> [nil |-> FALSE, m |-> Put(EmptyMap, 5, <<7>>)]
      [] n = "map[[1]int8]string" ->
            [nil |-> FALSE, m |-> Put(EmptyMap, <<7>>, Txt(<<"9">>))]
      [] OTHER -> Zero(Ty(n))

\* The arguments v of Marshal(v), each [n, p, a, s]: a value of every type of
\* DestNames, the zero value (s = 0) or MSample (s = 1), and for some of them
\* also behind p pointers of which the first a are non-nil.  Of a primitive
\* type every value of RoundTripValues is marshalled (s = 2).
MArgs ==
    {[n |-> n, p |-> 0, a |-> 0, s |-> s] : n \in DestNames \ PrimNames, s \in 0..1}
    \cup {[n |-> n, p |-> 0, a |-> 0, s |-> 2] : n \in PrimNames}
    \cup UNION {{[n |-> n, p |-> p, a |-> a, s |-> 0] : a \in 0..p}
                    \cup {[n |-> n, p |-> p, a |-> p, s |-> 1]} :
                n \in {"int8", "int32", "string", "[]int8", "map[string]string",
                       "TextBoth", "OnlyM", "PtrM", "TextSlice", "Struct",
                       "chan"},
                p \in 1..MaxPtr}

\* the value at the end of the pointers of the argument d
MLeaf(d) == IF d.s = 0 THEN Zero(Ty(d.n)) ELSE MSample(d.n)

\* the orders in which MapRange can visit the keys of the argument d: every
\* permutation of the keys of a map that is reached, no key otherwise
MapOrders(d) ==
    LET S == IF NameKind(d.n) = "map" /\ d.a = d.p THEN DOMAIN MLeaf(d).m
             ELSE {}
    IN {o \in [1..Cardinality(S) -> S] :
            \A i, j \in DOMAIN o : o[i] = o[j] => i = j}

\* the values v that the argument d stands for
MValues(d) ==
    IF d.s = 2 THEN RoundTripValues(d.n) ELSE {Chain(d.p, d.a, MLeaf(d))}

\* a call of Marshal(v), v of any type: a value, a pointer to one, a nil
\* pointer
MarshalCall ==
    /\ pc = "idle"
    /\ \E d \in MArgs, go \in IterOrders(mreg) :
        \E x \in MValues(d), mo \in MapOrders(d) :
            LET t == [n |-> d.n, p |-> d.p]
                r == Marshal(t, x, [l |-> go, g |-> go, m |-> mo])
            IN /\ res' = [op |-> "Marshal", t |-> t, x |-> x, mo |-> mo,
                          str |-> r.str, err |-> r.err, calls |-> r.calls,
                          panic |-> r.panic]
               /\ pc' = IF d.s = 2 THEN "marshalled" ELSE "done"
    /\ UNCHANGED <<ureg, mreg, lreg, lmreg, lreg2, hist>>

\* after Marshal(x) returned s without error: var y T; Unmarshal(s, &y)
UnmarshalBack ==
    /\ pc = "marshalled"
    /\ res.err = NoErr /\ res.panic = ""
    /\ \E go \in IterOrders(ureg) :
        LET rv == [t |-> PtrTo(res.t), v |-> <<Zero(res.t)>>, set |-> FALSE]
            r == Unmarshal(res.str, rv, [l |-> go, g |-> go, m |-> <<>>])
        IN res' = [op |-> "RoundTrip", t |-> res.t, x |-> res.x,
                   str |-> res.str, y |-> r.v[1], err |-> r.err,
                   calls |-> r.calls, panic |-> r.panic]
    /\ pc' = "done"
    /\ UNCHANGED <<ureg, mreg, lreg, lmreg, lreg2, hist>>

\* the calls of Unmarshal and Marshal a program makes
Next == UnmarshalCall \/ MarshalCall

Spec == Init /\ [][Next]_vars

\* the round trip: Marshal, then Unmarshal of its result
NextRoundTrip == MarshalCall \/ UnmarshalBack

SpecRoundTrip == Init /\ [][NextRoundTrip]_vars

---------------------------------------------------------------------------
(* The calls that take a reflect.Value: Unmarshaler.Unmarshal and          *)
(* UnmarshalFunc.Exec.  Such a value may or may not be settable.           *)

unableToSetMut(rv) == Kind(rv.t) # "ptr"

\* v.Kind() != reflect.Ptr && !v.CanSet()
unableToSet(rv) == Kind(rv.t) # "ptr" /\ ~rv.set

\* Unmarshaler.Unmarshal(val, v) on the Unmarshaler u
UnmarshalerUnmarshal(u, val, rv, o) ==
    IF unableToSet(rv) THEN Result(Err(ErrUnableToSet), rv.v, <<>>, "")
    ELSE unmarshal(u, ureg, val, rv, FALSE, o)

\* the Values passed with a reflect.Value
ValueInputs ==
    {<<>>, Txt(<<"9">>), Txt(<<"a">>), Txt(<<" ">>), Txt(<<"/", "a">>),
     Txt(<<"9", "9", "9">>), Txt(<<"1", ",", "9">>), Txt(<<"a", "=", "9">>)}

\* the reflect.Values passed: of the types of DeepNames, behind 0..MaxPtr
\* pointers of which the first a are non-nil
ValueArgs ==
    UNION {{[n |-> n, p |-> p, a |-> a, s |-> 0] : a \in 0..p}
                \cup {[n |-> n, p |-> p, a |-> p, s |-> s] : s \in 1..Samples(n)} :
            n \in DeepNames, p \in 0..MaxPtr}

\* a call u.Unmarshal(val, v) on the global Unmarshaler's configuration, v a
\* reflect.Value that is settable or not
UnmarshalValue ==
    /\ pc = "idle"
    /\ \E val \in ValueInputs, d \in ValueArgs, set \in BOOLEAN,
          go \in IterOrders(ureg) :
        LET rv == [ValueOf(d) EXCEPT !.set = set]
            r == UnmarshalerUnmarshal(GlobalUnmarshaler, val, rv,
                                      [l |-> go, g |-> go, m |-> <<>>])
        IN res' = [op |-> "Unmarshaler.Unmarshal", val |-> val, t |-> rv.t,
                   set |-> set, fn |-> Nil, before |-> rv.v, after |-> r.v,
                   err |-> r.err, calls |-> r.calls, panic |-> r.panic]
    /\ pc' = "done"
    /\ UNCHANGED <<ureg, mreg, lreg, lmreg, lreg2, hist>>

\* a call fn.Exec(val, dest), fn a function of the global register or one
\* of the program
ExecCall ==
    /\ pc = "idle"
    /\ \E val \in ValueInputs, d \in ValueArgs, set \in BOOLEAN,
          fn \in Range(ureg.funcs) \cup {"userFunc1"} :
        LET rv == [ValueOf(d) EXCEPT !.set = set]
            r == Exec(fn, val, rv)
        IN res' = [op |-> "Exec", val |-> val, t |-> rv.t, set |-> set,
                   fn |-> fn, before |-> rv.v, after |-> r.v, err |-> r.err,
                   calls |-> r.calls, panic |-> r.panic]
    /\ pc' = "done"
    /\ UNCHANGED <<ureg, mreg, lreg, lmreg, lreg2, hist>>

NextValue == UnmarshalValue \/ ExecCall

SpecValue == Init /\ [][NextValue]_vars

---------------------------------------------------------------------------
(* Registration and lookup. *)

\* the types the program registers an UnmarshalFunc for
RegTypes ==
    {Ty("TextMarshaler"), Ty("TextUnmarshaler"), Ty("Stringer"), Ty("TextBoth"),
     PtrTo(Ty("OnlyU")), Ty("int8"), Ty("chan"), Ty("[]int8"), Ty("func"),
     Ty("uintptr"), Ty("unsafe.Pointer"), Ty("map[string]string"),
     Ty("[2]int8"), NilType}

\* the types the program registers a MarshalFunc for
MRegTypes == {Ty("Stringer"), Ty("TextBoth"), Ty("int8"), Ty("func")}

\* the named types looked up, each behind 0..MaxPtr pointers
LookupNames ==
    {"TextBoth", "OnlyU", "OnlyM", "PtrM", "Struct", "TextSlice", "Duration",
     "URL", "int8", "int32", "string", "chan"}

LookupTypes == {[n |-> n, p |-> p] : n \in LookupNames, p \in 0..MaxPtr}

MLookupNames == {"TextBoth", "OnlyM", "PtrM", "Struct", "int8", "int32"}

MLookupTypes == {[n |-> n, p |-> p] : n \in MLookupNames, p \in 0..MaxPtr}

\* the function of the k-th add call made after init(): every call passes a
\* function of its own
UserFunc(k) ==
    CASE k = 1 -> "userFunc1" [] k = 2 -> "userFunc2" [] k = 3 -> "userFunc3"
      [] k = 4 -> "userFunc4" [] OTHER -> "userFunc5"

Registered == Len(hist) - Len(InitHist)

\* the record of a call of add on the register named reg: hist grows when it
\* did not panic
Recorded(op, reg, typ, c) ==
    /\ res' = [op |-> op, t |-> typ, panic |-> c.panic,
               fn |-> IF c.panic = "" THEN UserFunc(Registered + 1) ELSE Nil]
    /\ hist' = IF c.panic # "" THEN hist
               ELSE Append(hist, [reg |-> reg, t |-> typ,
                                  fn |-> UserFunc(Registered + 1)])

\* RegisterUnmarshalFunc(typ, fn)
RegisterUnmarshalFunc ==
    /\ pc = "idle"
    /\ Registered < MaxRegs
    /\ \E typ \in RegTypes :
        LET c == addCall(ureg, typ, UserFunc(Registered + 1))
        IN ureg' = c.r /\ Recorded("RegisterUnmarshalFunc", "unmarshaler", typ, c)
    /\ UNCHANGED <<pc, mreg, lreg, lmreg, lreg2>>

RegisterMut ==
    /\ pc = "idle"
    /\ Registered < MaxRegs
    /\ \E typ \in RegTypes :
        LET c == addCall(lreg, typ, UserFunc(Registered + 1))
        IN /\ lreg' = c.r
           /\ ureg' = addCall(ureg, typ, UserFunc(Registered + 1)).r
           /\ Recorded("Register", "u", typ, c)
    /\ UNCHANGED <<pc, mreg, lmreg, lreg2>>

\* u.Register(typ, fn) on the scoped Unmarshaler u
Register ==
    /\ pc = "idle"
    /\ Registered < MaxRegs
    /\ \E typ \in RegTypes :
        LET c == addCall(lreg, typ, UserFunc(Registered + 1))
        IN lreg' = c.r /\ Recorded("Register", "u", typ, c)
    /\ UNCHANGED <<pc, ureg, mreg, lmreg, lreg2>>

\* RegisterMarshalFunc(typ, fn)
RegisterMarshalFunc ==
    /\ pc = "idle"
    /\ Registered < MaxRegs
    /\ \E typ \in MRegTypes :
        LET c == addCall(mreg, typ, UserFunc(Registered + 1))
        IN mreg' = c.r /\ Recorded("RegisterMarshalFunc", "marshaler", typ, c)
    /\ UNCHANGED <<pc, ureg, lreg, lmreg, lreg2>>

\* m.Register(typ, fn) on the scoped Marshaler m
MarshalerRegister ==
    /\ pc = "idle"
    /\ Registered < MaxRegs
    /\ \E typ \in MRegTypes :
        LET c == addCall(lmreg, typ, UserFunc(Registered + 1))
        IN lmreg' = c.r /\ Recorded("Marshaler.Register", "m", typ, c)
    /\ UNCHANGED <<pc, ureg, mreg, lreg, lreg2>>

\* GetUnmarshalFunc(typ): unmarshaler.Func(typ)
GetUnmarshalFunc ==
    /\ pc = "idle"
    /\ \E typ \in LookupTypes, go \in IterOrders(ureg) :
        res' = [op |-> "GetUnmarshalFunc", t |-> typ,
                fn |-> Func(ureg, ureg, typ, go, go), panic |-> ""]
    /\ pc' = "done"
    /\ UNCHANGED <<ureg, mreg, lreg, lmreg, lreg2, hist>>

\* u.Func(typ) on the scoped Unmarshaler u
UFunc ==
    /\ pc = "idle"
    /\ \E typ \in LookupTypes, lo \in IterOrders(lreg), go \in IterOrders(ureg) :
        res' = [op |-> "Func", t |-> typ,
                fn |-> Func(lreg, ureg, typ, lo, go), panic |-> ""]
    /\ pc' = "done"
    /\ UNCHANGED <<ureg, mreg, lreg, lmreg, lreg2, hist>>

\* GetMarshalFunc(typ): marshaler.Func(typ)
GetMarshalFunc ==
    /\ pc = "idle"
    /\ \E typ \in MLookupTypes, go \in IterOrders(mreg) :
        res' = [op |-> "GetMarshalFunc", t |-> typ,
                fn |-> Func(mreg, mreg, typ, go, go), panic |-> ""]
    /\ pc' = "done"
    /\ UNCHANGED <<ureg, mreg, lreg, lmreg, lreg2, hist>>

\* m.Func(typ) on the scoped Marshaler m
MarshalerFunc ==
    /\ pc = "idle"
    /\ \E typ \in MLookupTypes, lo \in IterOrders(lmreg),
          go \in IterOrders(mreg) :
        res' = [op |-> "Marshaler.Func", t |-> typ,
                fn |-> Func(lmreg, mreg, typ, lo, go), panic |-> ""]
    /\ pc' = "done"
    /\ UNCHANGED <<ureg, mreg, lreg, lmreg, lreg2, hist>>

\* u2.Register(typ, fn) on the second scoped Unmarshaler u2
OtherRegister ==
    /\ pc = "idle"
    /\ Registered < MaxRegs
    /\ \E typ \in {Ty("TextBoth"), Ty("Stringer"), Ty("func")} :
        LET c == addCall(lreg2, typ, UserFunc(Registered + 1))
        IN lreg2' = c.r /\ Recorded("Other.Register", "u2", typ, c)
    /\ UNCHANGED <<pc, ureg, mreg, lreg, lmreg>>

\* u2.Func(typ) on the second scoped Unmarshaler u2
OtherFunc ==
    /\ pc = "idle"
    /\ \E typ \in LookupTypes, lo \in IterOrders(lreg2), go \in IterOrders(ureg) :
        res' = [op |-> "Other.Func", t |-> typ,
                fn |-> Func(lreg2, ureg, typ, lo, go), panic |-> ""]
    /\ pc' = "done"
    /\ UNCHANGED <<ureg, mreg, lreg, lmreg, lreg2, hist>>

NextReg ==
    \/ RegisterUnmarshalFunc \/ Register \/ RegisterMarshalFunc
    \/ MarshalerRegister \/ OtherRegister \/ OtherFunc
    \/ GetUnmarshalFunc \/ UFunc \/ GetMarshalFunc \/ MarshalerFunc

SpecReg == Init /\ [][NextReg]_vars

---------------------------------------------------------------------------
(* Concurrent calls of register.add and register.find on one register      *)
(* (register.go).  The register has no lock, so the calls of different     *)
(* goroutines interleave at every read and write of r.types and r.funcs.   *)
(* In this specification ureg is the shared register, pc and res map each  *)
(* goroutine to its position and its locals, and hist holds the calls that *)
(* overlapped, the number of add calls that returned, and whether the      *)
(* runtime stopped the program.                                            *)

Registrars == {"r1", "r2"}
Finders == {"l1", "l2"}
Procs == Registrars \cup Finders

\* the types goroutine p registers: two struct types, an interface and a
\* kind add panics on
ConcRegTypes(p) ==
    IF p = "r1" THEN {Ty("TextBoth"), Ty("chan")}
    ELSE {Ty("TextBoth"), Ty("Struct"), Ty("Stringer")}

\* the types goroutine p looks up
ConcFindTypes(p) ==
    IF p = "l1" THEN {Ty("TextBoth"), PtrTo(Ty("TextBoth"))}
    ELSE {Ty("TextBoth"), Ty("Struct")}

panicNilMap == "assignment to entry in nil map"
fatalMapAccess == "fatal error: concurrent map access"

\* the locals of a goroutine: the type and function of its call, what it has
\* read (ok, n, s, i), the probes its find has left, and the outcome
Locals0 ==
    [t |-> NoType, fn |-> Nil, ok |-> FALSE, n |-> 0, s |-> <<>>, i |-> 0,
     probes |-> <<>>, out |-> Nil]

Active(p) == pc[p] \notin {"idle", "done"}

\* the calls in progress with which a call of p beginning now overlaps: a
\* pair of calls counts when one of them is an add
Overlapping(p) ==
    IF p \in Registrars THEN {q \in Procs \ {p} : Active(q)}
    ELSE {q \in Registrars : Active(q)}

\* hist when the call of p begins: the pairs of overlapping calls grow
Begun(p) ==
    [hist EXCEPT !.overlapped = @ \cup {{p, q} : q \in Overlapping(p)}]

InitConc ==
    /\ pc = [p \in Procs |-> "idle"]
    /\ ureg \in {ZeroRegister, InitUnmarshalRegister}
    /\ mreg = InitMarshalRegister
    /\ lreg = ZeroRegister
    /\ lmreg = ZeroRegister
    /\ lreg2 = ZeroRegister
    /\ hist = [overlapped |-> {}, ok |-> Len(ureg.funcs), fatal |-> FALSE]
    /\ res = [p \in Procs |-> Locals0]

\* r.add(typ, fn) begins: the test of the kind reads nothing of r
AddBegin(p) ==
    /\ pc[p] = "idle"
    /\ \E typ \in ConcRegTypes(p) :
        IF addPanics(typ)
        THEN /\ pc' = [pc EXCEPT ![p] = "done"]
             /\ res' = [res EXCEPT ![p].t = typ, ![p].out = panicUnsupportedKind]
             /\ hist' = hist
        ELSE /\ pc' = [pc EXCEPT ![p] = "initTypes"]
             /\ res' = [res EXCEPT ![p].t = typ,
                                   ![p].fn = IF p = "r1" THEN UserFunc(1)
                                             ELSE UserFunc(2)]
             /\ hist' = Begun(p)
    /\ UNCHANGED <<ureg, mreg, lreg, lmreg, lreg2>>

\* if r.types == nil
TypesNil(p) ==
    /\ pc[p] = "initTypes"
    /\ pc' = [pc EXCEPT ![p] = IF ureg.typesNil THEN "makeTypes" ELSE "initFuncs"]
    /\ UNCHANGED <<ureg, mreg, lreg, lmreg, lreg2, hist, res>>

\* r.types = make(map[reflect.Kind]map[reflect.Type]int, 3)
MakeTypes(p) ==
    /\ pc[p] = "makeTypes"
    /\ ureg' = [ureg EXCEPT !.typesNil = FALSE, !.types = EmptyMap]
    /\ pc' = [pc EXCEPT ![p] = "initFuncs"]
    /\ UNCHANGED <<mreg, lreg, lmreg, lreg2, hist, res>>

\* if r.funcs == nil
FuncsNil(p) ==
    /\ pc[p] = "initFuncs"
    /\ pc' = [pc EXCEPT ![p] = IF ureg.funcsNil THEN "makeFuncs" ELSE "kind"]
    /\ UNCHANGED <<ureg, mreg, lreg, lmreg, lreg2, hist, res>>

\* r.funcs = make([]T, 0, 3)
MakeFuncs(p) ==
    /\ pc[p] = "makeFuncs"
    /\ ureg' = [ureg EXCEPT !.funcsNil = FALSE, !.funcs = <<>>]
    /\ pc' = [pc EXCEPT ![p] = "kind"]
    /\ UNCHANGED <<mreg, lreg, lmreg, lreg2, hist, res>>

\* _, ok := r.types[k]
ReadKind(p) ==
    /\ pc[p] = "kind"
    /\ res' = [res EXCEPT ![p].ok = Kind(res[p].t) \in DOMAIN ureg.types]
    /\ pc' = [pc EXCEPT ![p] = "len"]
    /\ UNCHANGED <<ureg, mreg, lreg, lmreg, lreg2, hist>>

\* a variant of nextIndex: the index after the last one
nextIndexMut(funcs) == Len(funcs) + 1

\* len(r.funcs), the index a type is given
nextIndex(funcs) == Len(funcs)

\* len(r.funcs), read for the entry of the type table
ReadLen(p) ==
    /\ pc[p] = "len"
    /\ res' = [res EXCEPT ![p].n = nextIndex(ureg.funcs)]
    /\ pc' = [pc EXCEPT ![p] = "setIndex"]
    /\ UNCHANGED <<ureg, mreg, lreg, lmreg, lreg2, hist>>

\* r.types[k] = map[reflect.Type]int{typ: n} when the kind was not there,
\* r.types[k][typ] = n when it was; the latter panics when r.types has been
\* replaced since and holds no map for the kind
SetIndex(p) ==
    /\ pc[p] = "setIndex"
    /\ LET k == Kind(res[p].t)
       IN IF ~res[p].ok
          THEN /\ ureg' = [ureg EXCEPT !.types =
                                Put(@, k, Put(EmptyMap, res[p].t, res[p].n))]
               /\ pc' = [pc EXCEPT ![p] = "funcs"]
               /\ res' = res
          ELSE IF k \in DOMAIN ureg.types
          THEN /\ ureg' = [ureg EXCEPT !.types =
                                Put(@, k, Put(@[k], res[p].t, res[p].n))]
               /\ pc' = [pc EXCEPT ![p] = "funcs"]
               /\ res' = res
          ELSE /\ ureg' = ureg
               /\ pc' = [pc EXCEPT ![p] = "done"]
               /\ res' = [res EXCEPT ![p].out = panicNilMap]
    /\ UNCHANGED <<mreg, lreg, lmreg, lreg2, hist>>

\* the read of r.funcs in append(r.funcs, fn)
ReadFuncs(p) ==
    /\ pc[p] = "funcs"
    /\ res' = [res EXCEPT ![p].s = ureg.funcs]
    /\ pc' = [pc EXCEPT ![p] = "append"]
    /\ UNCHANGED <<ureg, mreg, lreg, lmreg, lreg2, hist>>

\* r.funcs = append(s, fn), and the return of add
AppendFunc(p) ==
    /\ pc[p] = "append"
    /\ ureg' = [ureg EXCEPT !.funcs = Append(res[p].s, res[p].fn)]
    /\ hist' = [hist EXCEPT !.ok = @ + 1]
    /\ pc' = [pc EXCEPT ![p] = "done"]
    /\ UNCHANGED <<mreg, lreg, lmreg, lreg2, res>>

RECURSIVE Probes(_)
\* the lookups find makes for typ, in order: getFromType and getFromImpl
\* calls, the first one that returns a function ending the search
Probes(typ) ==
    IF Kind(typ) # "ptr"
    THEN <<[m |-> "type", t |-> typ], [m |-> "impl", t |-> implType(typ)]>>
    ELSE <<[m |-> "type", t |-> typ]>> \o Probes(Elem(typ))
            \o <<[m |-> "impl", t |-> typ]>>

\* r.find(typ) begins
FindBegin(p) ==
    /\ pc[p] = "idle"
    /\ \E typ \in ConcFindTypes(p) :
        res' = [res EXCEPT ![p].t = typ, ![p].probes = Probes(typ)]
    /\ pc' = [pc EXCEPT ![p] = "probe"]
    /\ hist' = Begun(p)
    /\ UNCHANGED <<ureg, mreg, lreg, lmreg, lreg2>>

\* the indices the probe pr can read from the type table of r: the entry of
\* the type, or the entry of the first interface the type implements in one
\* of the orders the range can take; {} when there is none
probeIndexMut(r, pr) ==
    IF Kind(pr.t) \in DOMAIN r.types
    THEN {r.types[Kind(pr.t)][x] : x \in DOMAIN r.types[Kind(pr.t)]}
    ELSE {}

probeIndex(r, pr) ==
    IF pr.m = "type"
    THEN IF Kind(pr.t) \in DOMAIN r.types /\ pr.t \in DOMAIN r.types[Kind(pr.t)]
         THEN {r.types[Kind(pr.t)][pr.t]} ELSE {}
    ELSE {r.types["interface"][x] : x \in {y \in Interfaces(r) : Implements(pr.t, y)}}

\* the read of the type table by getFromType or getFromImpl
Probe(p) ==
    /\ pc[p] = "probe"
    /\ LET pr == Head(res[p].probes)
       IN IF probeIndex(ureg, pr) # {}
          THEN /\ \E i \in probeIndex(ureg, pr) : res' = [res EXCEPT ![p].i = i]
               /\ pc' = [pc EXCEPT ![p] = "getFromIndex"]
          ELSE /\ res' = [res EXCEPT ![p].probes = Tail(@)]
               /\ pc' = [pc EXCEPT ![p] = IF Len(res[p].probes) = 1
                                           THEN "done" ELSE "probe"]
    /\ UNCHANGED <<ureg, mreg, lreg, lmreg, lreg2, hist>>

\* r.getFromIndex(i), and the return of find
GetFromIndex(p) ==
    /\ pc[p] = "getFromIndex"
    /\ res' = [res EXCEPT ![p].out = getFromIndex(ureg, res[p].i)]
    /\ pc' = [pc EXCEPT ![p] = "done"]
    /\ UNCHANGED <<ureg, mreg, lreg, lmreg, lreg2, hist>>

\* p is about to write a map of the type table
MapWriter(p) == pc[p] = "setIndex"
\* p is about to read or write a map of the type table
MapUser(p) == pc[p] \in {"kind", "setIndex", "probe"}

\* the runtime finds a map written while another goroutine uses it and stops
\* the program
Fatal ==
    /\ \E p, q \in Procs : p # q /\ MapWriter(p) /\ MapUser(q)
    /\ hist' = [hist EXCEPT !.fatal = TRUE]
    /\ pc' = [p \in Procs |-> "done"]
    /\ res' = [p \in Procs |-> IF Active(p)
                                 THEN [res[p] EXCEPT !.out = fatalMapAccess]
                                 ELSE res[p]]
    /\ UNCHANGED <<ureg, mreg, lreg, lmreg, lreg2>>

NextConc ==
    \/ \E p \in Registrars :
            \/ AddBegin(p) \/ TypesNil(p) \/ MakeTypes(p) \/ FuncsNil(p)
            \/ MakeFuncs(p) \/ ReadKind(p) \/ ReadLen(p) \/ SetIndex(p)
            \/ ReadFuncs(p) \/ AppendFunc(p)
    \/ \E p \in Finders : FindBegin(p) \/ Probe(p) \/ GetFromIndex(p)
    \/ Fatal

SpecConc == InitConc /\ [][NextConc]_vars

---------------------------------------------------------------------------
(* Properties of registration and lookup, checked under SpecReg. *)

\* the interfaces of register r that the pointer to the named type n
\* implements: the candidates of the interface match of a lookup of n
\* behind any number of pointers
MatchingInterfaces(r, n) ==
    {x \in Interfaces(r) : Implements(PtrTo(Ty(n)), x)}

\* some type on the way from typ down to its named type is registered itself
ExactOnTheWay(r, typ) ==
    \E q \in 0..typ.p : getFromType(r, [n |-> typ.n, p |-> q]) # Nil

\* the position in hist of the first add call of register reg for type t
FirstAdd(reg, t) ==
    CHOOSE i \in 1..Len(hist) :
        /\ hist[i].reg = reg /\ hist[i].t = t
        /\ \A j \in 1..(i - 1) : ~(hist[j].reg = reg /\ hist[j].t = t)

\* the last function an add call of register reg passed for type t
LastFn(reg, t) ==
    LET i == CHOOSE i \in 1..Len(hist) :
                /\ hist[i].reg = reg /\ hist[i].t = t
                /\ \A j \in (i + 1)..Len(hist) :
                        ~(hist[j].reg = reg /\ hist[j].t = t)
    IN hist[i].fn

\* the interface of S that register reg was given first
FirstRegistered(reg, S) ==
    CHOOSE x \in S : \A y \in S : FirstAdd(reg, x) <= FirstAdd(reg, y)

\* C1: a lookup in the global register that is settled by the interface
\* match, the candidate implementing two or more registered interfaces,
\* returns the function of the interface that was registered first.
C1_FirstRegisteredInterfaceWins ==
    (/\ res.op = "GetUnmarshalFunc"
     /\ ~ExactOnTheWay(ureg, res.t)
     /\ Cardinality(MatchingInterfaces(ureg, res.t.n)) >= 2)
        => res.fn = LastFn("unmarshaler",
                FirstRegistered("unmarshaler", MatchingInterfaces(ureg, res.t.n)))

---------------------------------------------------------------------------
(* Properties of Unmarshal and Marshal, checked under Spec. *)

\* the call was Unmarshal(val, &x), x a variable of a named type
ToVariable == res.op = "Unmarshal" /\ res.t.p = 1 /\ Len(res.before) = 1

\* the call was Unmarshal(val, v), v a non-nil pointer
ToPointer == res.op = "Unmarshal" /\ res.t.p >= 1 /\ Len(res.before) = 1

\* s is a decimal numeral: digits without a leading zero, after a minus sign
\* when it is negative
IsNumeral(s) ==
    LET d == IF s # <<>> /\ s[1] = 45 THEN Tail(s) ELSE s
    IN /\ d # <<>>
       /\ \A i \in DOMAIN d : d[i] >= 48 /\ d[i] <= 57
       /\ (Len(d) > 1 \/ d # s) => d[1] # 48

\* the integer the numeral s denotes
NumeralValue(s) ==
    IF s[1] = 45 THEN 0 - decimal(Tail(s), 1, 0) ELSE decimal(s, 1, 0)

\* x is a value of the integer type named n
InRange(x, n) ==
    CASE n = "int8" -> x >= 0 - 128 /\ x <= 127
      [] n = "int16" -> x >= 0 - 32768 /\ x <= 32767
      [] n = "uint8" -> x >= 0 /\ x <= 255
      [] n = "uint16" -> x >= 0 /\ x <= 65535
      [] n \in UintNames -> x >= 0
      [] OTHER -> TRUE

\* C2: Unmarshal of a numeral that lies in the range of an integer variable,
\* of any signed or unsigned width, returns no error and stores exactly the
\* integer the numeral denotes.
C2_NumeralDecodesExactly ==
    (/\ ToVariable
     /\ res.t.n \in IntNames \cup UintNames
     /\ IsNumeral(res.val)
     /\ InRange(NumeralValue(res.val), res.t.n))
        => /\ res.err = NoErr
           /\ res.panic = ""
           /\ res.after = <<NumeralValue(res.val)>>

\* C3: Marshal of a string, a bool or an integer of any width succeeds, and
\* Unmarshal of its text into a variable of the same type succeeds and
\* stores the value that was marshalled.
C3_RoundTrip ==
    /\ (res.op \in {"Marshal", "RoundTrip"}
        /\ res.t.n \in {"string", "bool"} \cup IntNames \cup UintNames)
            => res.err = NoErr /\ res.panic = ""
    /\ (res.op = "RoundTrip"
        /\ res.t.n \in {"string", "bool"} \cup IntNames \cup UintNames)
            => res.y = res.x

\* no function is registered that a lookup of typ finds, whatever the order
\* the interfaces are visited in
NoFunc(typ) == \A go \in IterOrders(ureg) : Func(ureg, ureg, typ, go, go) = Nil

\* there is no way to decode into typ: no function is found for it, the type
\* behind its pointers is neither a primitive nor an array, slice or map,
\* and it has no UnmarshalText
NoPath(typ) ==
    /\ NoFunc(typ)
    /\ NameKind(typ.n) \notin PrimNames \cup {"array", "slice", "map"}
    /\ "TextUnmarshaler" \notin PointerMethods(typ.n)

IsNested(t) == Kind(t) \in {"array", "slice", "map"} /\ NoFunc(t)

NestedType(n) ==
    /\ NameKind(n) \in {"array", "slice", "map"}
    /\ n # "TextSlice"
    /\ IsNested(Elem(Ty(n))) \/ (NameKind(n) = "map" /\ IsNested(Key(Ty(n))))

\* every part of val has the key-value separator when n names a map type
PassesMapFormat(n, val) ==
    NameKind(n) = "map" =>
        \A i \in DOMAIN split(val, DefaultItemsSeparator) :
            Index(split(val, DefaultItemsSeparator)[i],
                  DefaultKeyValueSeparator) # 0

\* the text decodes into a variable of the string or integer type t
PieceDecodes(t, text) ==
    \/ t.n = "string"
    \/ text = <<>>
    \/ IsNumeral(text) /\ InRange(NumeralValue(text), t.n)

\* the value a text that decodes leaves in a fresh variable of type t
PieceValue(t, text) ==
    IF t.n = "string" THEN text
    ELSE IF text = <<>> THEN 0 ELSE NumeralValue(text)

\* the first part of val hands a non-empty text to a nested element
FirstPieceNested(n, val) ==
    LET part == split(val, DefaultItemsSeparator)[1]
        at == Index(part, DefaultKeyValueSeparator)
        key == SubSeq(part, 1, at - 1)
        value == SubSeq(part, at + 1, Len(part))
    IN CASE NameKind(n) = "array" ->
                ArrayLen(Ty(n)) >= 1 /\ TrimSpace(part) # <<>>
         [] NameKind(n) = "slice" -> TrimSpace(part) # <<>>
         [] NameKind(n) = "map" ->
                /\ at # 0
                /\ IF IsNested(Key(Ty(n))) THEN key # <<>>
                   ELSE PieceDecodes(Key(Ty(n)), key) /\ value # <<>>

\* the elements (keys) of nested type of the value v of type n are zero
NestedZero(n, v) ==
    CASE NameKind(n) \in {"array", "slice"} ->
            \A i \in DOMAIN v : v[i] = Zero(Elem(Ty(n)))
      [] IsNested(Key(Ty(n))) ->
            \A k \in DOMAIN v.m : k = Zero(Key(Ty(n)))
      [] OTHER ->
            \A k \in DOMAIN v.m : v.m[k] = Zero(Elem(Ty(n)))

NotRegistered(n) ==
    getFromType(ureg, Ty(n)) = Nil /\ getFromType(ureg, PtrTo(Ty(n))) = Nil

\* C6: Unmarshal into a variable of a type T that is not registered itself
\* calls unmarshalText, once and without a panic, when *T has UnmarshalText,
\* whether or not it has MarshalText; and it never calls unmarshalText when
\* *T has no UnmarshalText.
C6_TextUnmarshalerResolved ==
    (/\ ToVariable
     /\ NameKind(res.t.n) \notin {"array", "map"}
     /\ NameKind(res.t.n) = "slice" => res.t.n = "TextSlice"
     /\ NotRegistered(res.t.n))
        => IF "TextUnmarshaler" \in PointerMethods(res.t.n)
           THEN /\ res.panic = ""
                /\ res.calls = <<[fn |-> "unmarshalText", arg |-> res.val]>>
           ELSE /\ res.panic = ""
                /\ \A i \in DOMAIN res.calls : res.calls[i].fn # "unmarshalText"

\* the parts of a Value: the empty Value has none
Parts(val) == IF val = <<>> THEN <<>> ELSE split(val, DefaultItemsSeparator)

\* n names an array type of strings or integers
PlainArray(n) ==
    NameKind(n) = "array" /\ Elem(Ty(n)) \in {Ty("int8"), Ty("string")}

Min(a, b) == IF a < b THEN a ELSE b

\* C7: Unmarshal of a Value of k parts into an array of length n, the parts
\* that are decoded being texts of its elements: with k <= n there is no
\* error and elements 0..k-1 hold the trimmed parts, decoded, in order; with
\* k > n the error is ErrArrayTooManyValues and the elements hold the first n
\* parts.
C7_ArrayDecode ==
    (ToVariable /\ PlainArray(res.t.n)) =>
        LET parts == Parts(res.val)
            k == Len(parts)
            n == ArrayLen(Ty(res.t.n))
            et == Elem(Ty(res.t.n))
        IN (\A i \in 1..Min(k, n) : PieceDecodes(et, TrimSpace(parts[i])))
            => /\ res.panic = ""
               /\ k <= n => res.err = NoErr
               /\ k > n => Is(res.err, ErrArrayTooManyValues)
               /\ \A i \in 1..Min(k, n) :
                    res.after[1][i] = PieceValue(et, TrimSpace(parts[i]))

C7_Witness ==
    /\ ToVariable /\ res.t.n = "[2]int8"
    /\ res.val = Txt(<<"1", ",", "2", ",", "3">>)
    /\ res.before = <<<<7, 7>>>>
    /\ res.after = <<<<1, 2>>>>
    /\ Is(res.err, ErrArrayTooManyValues)

\* C8 as stated: after Unmarshal of a non-empty Value of k parts into an
\* array of length n > k returned no error, elements k..n-1 are zero whatever
\* the array held before.
C8_RestIsZero ==
    (ToVariable /\ PlainArray(res.t.n) /\ res.val # <<>> /\ res.err = NoErr) =>
        \A i \in (Len(Parts(res.val)) + 1)..ArrayLen(Ty(res.t.n)) :
            res.after[1][i] = Zero(Elem(Ty(res.t.n)))

\* C8: after Unmarshal of a Value of k parts into an array of length n > k
\* returned no error, elements k..n-1 hold what they held before the call:
\* they are zero when the array was zero before.
C8_RestIsUnchanged ==
    (ToVariable /\ PlainArray(res.t.n) /\ res.err = NoErr) =>
        \A i \in (Len(Parts(res.val)) + 1)..ArrayLen(Ty(res.t.n)) :
            res.after[1][i] = res.before[1][i]

C8_Witness ==
    /\ ToVariable /\ res.t.n = "[3]int8"
    /\ res.val = Txt(<<"1">>)
    /\ res.err = NoErr
    /\ res.before = <<<<7, 7, 7>>>>
    /\ res.after = <<<<1, 7, 7>>>>

\* n names a map type of strings and integers
PlainMap(n) ==
    /\ NameKind(n) = "map"
    /\ Elem(Ty(n)) \in {Ty("int8"), Ty("string")}
    /\ Key(Ty(n)) \in {Ty("int8"), Ty("string")}

\* the text of part before its first key-value separator, and the text after
KeyText(part) == SubSeq(part, 1, Index(part, DefaultKeyValueSeparator) - 1)
ValueText(part) ==
    SubSeq(part, Index(part, DefaultKeyValueSeparator) + 1, Len(part))

\* the part has the separator, and its key and value texts decode
PartDecodes(n, part) ==
    /\ Index(part, DefaultKeyValueSeparator) # 0
    /\ PieceDecodes(Key(Ty(n)), KeyText(part))
    /\ PieceDecodes(Elem(Ty(n)), ValueText(part))

C10_EmptyValueIsNoOp ==
    (ToVariable /\ res.t.n \in PrimNames /\ res.val = <<>>) =>
        /\ res.err = NoErr
        /\ res.panic = ""
        /\ res.after = res.before

\* the text holds a byte no numeral and no bool has (a space, a comma, an
\* equals sign) or, for an integer, holds no digit at all
Malformed(n, text) ==
    /\ n \in PrimNames \ {"string"}
    /\ text # <<>>
    /\ \/ \E i \in DOMAIN text : text[i] \in {32, 44, 61}
       \/ /\ n \in IntNames \cup UintNames
          /\ \A i \in DOMAIN text : text[i] < 48 \/ text[i] > 57

\* the text is a decimal numeral, unsigned for an unsigned type, that denotes
\* no value of the integer type named n
OutOfRange(n, text) ==
    /\ n \in IntNames \cup UintNames
    /\ IsNumeral(text)
    /\ n \in UintNames => text[1] # 45
    /\ ~InRange(NumeralValue(text), n)

\* the error is the one of a text that is out of range, or that is malformed
IsValidationOnly(err) ==
    Is(err, ErrValidationFailure) /\ ~Is(err, ErrParseFailure)
IsParseOnly(err) ==
    Is(err, ErrParseFailure) /\ ~Is(err, ErrValidationFailure)

\* the error err is classified as the text, decoded into type t, asks for
Classified(t, text, err) ==
    /\ OutOfRange(t.n, text) => IsValidationOnly(err)
    /\ Malformed(t.n, text) => IsParseOnly(err)

\* the composite types whose elements or keys are integers
IntElemNames ==
    {"[]int8", "[]*int8", "[1]int8", "[2]int8", "[3]int8", "map[string]int8",
     "map[int8]string"}

\* C11: a primitive decode error keeps its classification: a numeral out of
\* the range of the destination gives ErrValidationFailure and not
\* ErrParseFailure, a malformed text ErrParseFailure and not
\* ErrValidationFailure, for a variable of a primitive kind as for the first
\* element, key or value of an array, slice or map that does not decode.
C11_ErrorClassification ==
    /\ (ToVariable /\ res.t.n \in PrimNames \ {"string"})
            => Classified(Ty(res.t.n), res.val, res.err)
    /\ (ToVariable /\ res.t.n \in IntElemNames /\ res.val # <<>>
        /\ NameKind(res.t.n) # "map") =>
            LET parts == Parts(res.val)
                et == Elem(Ty(res.t.n))
                last == IF NameKind(res.t.n) = "array"
                        THEN Min(Len(parts), ArrayLen(Ty(res.t.n)))
                        ELSE Len(parts)
            IN \A i \in 1..last :
                (\A j \in 1..(i - 1) : PieceDecodes(et, TrimSpace(parts[j])))
                    => Classified(et, TrimSpace(parts[i]), res.err)
    /\ (ToVariable /\ res.t.n \in IntElemNames /\ res.val # <<>>
        /\ NameKind(res.t.n) = "map") =>
            LET parts == Parts(res.val)
                n == res.t.n
            IN \A i \in DOMAIN parts :
                (/\ \A j \in 1..(i - 1) : PartDecodes(n, parts[j])
                 /\ Index(parts[i], DefaultKeyValueSeparator) # 0) =>
                    /\ Classified(Key(Ty(n)), KeyText(parts[i]), res.err)
                    /\ PieceDecodes(Key(Ty(n)), KeyText(parts[i])) =>
                        Classified(Elem(Ty(n)), ValueText(parts[i]), res.err)

---------------------------------------------------------------------------
(* More properties of registration and lookup, checked under SpecReg. *)

\* the calls that register a function
RegisterOps ==
    {"RegisterUnmarshalFunc", "Register", "RegisterMarshalFunc",
     "Marshaler.Register", "Other.Register"}

\* the kinds that cannot be registered
RefusedKinds ==
    {"invalid", "uintptr", "chan", "func", "unsafe.Pointer", "array", "slice",
     "map"}

\* no type of a refused kind is in register r
HoldsNoRefusedKind(r) == DOMAIN r.types \cap RefusedKinds = {}

\* C12: a registration panics exactly when the type is invalid (the nil Type)
\* or its kind is uintptr, chan, func, unsafe pointer, array, slice or map;
\* so no register ever holds a type of such a kind for a decode or encode
\* call to find.
C12_RefusedKindsPanic ==
    /\ res.op \in RegisterOps =>
        (res.panic # "" <=> (res.t = NilType \/ Kind(res.t) \in RefusedKinds))
    /\ HoldsNoRefusedKind(ureg) /\ HoldsNoRefusedKind(mreg)
    /\ HoldsNoRefusedKind(lreg) /\ HoldsNoRefusedKind(lmreg)
    /\ HoldsNoRefusedKind(lreg2)

C12_Witness ==
    /\ res.op = "RegisterUnmarshalFunc"
    /\ res.t = Ty("[]int8")
    /\ res.panic = panicUnsupportedKind
    /\ Registered = 1

\* the add calls of hist on the register named reg, in order
AddsOf(reg) == SelectSeq(hist, LAMBDA h : h.reg = reg)

\* register r, named reg in hist, holds every function it was given, in the
\* order of the calls, and resolves every type it was given to the function
\* of the last call for that type
KeepsAll(r, reg) ==
    /\ Len(r.funcs) = Len(AddsOf(reg))
    /\ \A i \in DOMAIN r.funcs : r.funcs[i] = AddsOf(reg)[i].fn
    /\ \A i \in DOMAIN AddsOf(reg) :
        /\ getFromType(r, AddsOf(reg)[i].t) = LastFn(reg, AddsOf(reg)[i].t)
        /\ \A ord \in IterOrders(r) :
            find(r, AddsOf(reg)[i].t, ord) = LastFn(reg, AddsOf(reg)[i].t)

\* C13: after any sequence of registrations a register resolves an exactly
\* registered type to the function of the most recent registration of that
\* type, and its function list is the list of all functions registered, in
\* order: one more per registration, none removed or overwritten.
C13_LatestRegistrationWins ==
    /\ KeepsAll(ureg, "unmarshaler") /\ KeepsAll(mreg, "marshaler")
    /\ KeepsAll(lreg, "u") /\ KeepsAll(lmreg, "m") /\ KeepsAll(lreg2, "u2")
    /\ (res.op = "GetUnmarshalFunc"
        /\ \E i \in DOMAIN hist :
                hist[i].reg = "unmarshaler" /\ hist[i].t = res.t)
            => res.fn = LastFn("unmarshaler", res.t)

C13_Witness ==
    /\ res.op = "GetUnmarshalFunc"
    /\ res.t = Ty("TextBoth")
    /\ res.fn = "userFunc2"
    /\ ureg.funcs = <<"unmarshalText", "unmarshalRune", "unmarshalDuration",
                      "unmarshalUrl", "userFunc1", "userFunc2">>
    /\ hist[Len(hist) - 1].t = Ty("TextBoth")
    /\ hist[Len(hist)].t = Ty("TextBoth")


\* ---------------------------------------------------------------------------
\* C14: pointer depth plays no part in resolution

\* the local and the global register a lookup operation consults
LocalOf(op) ==
    CASE op = "GetUnmarshalFunc" -> ureg [] op = "Func" -> lreg
      [] op = "GetMarshalFunc" -> mreg [] op = "Other.Func" -> lreg2
      [] OTHER -> lmreg

GlobalOf(op) ==
    IF op \in {"GetUnmarshalFunc", "Func", "Other.Func"} THEN ureg ELSE mreg

LookupOps ==
    {"GetUnmarshalFunc", "Func", "GetMarshalFunc", "Marshaler.Func",
     "Other.Func"}

\* every converter the lookup operation op can return for typ
CanReturn(op, typ) ==
    {Func(LocalOf(op), GlobalOf(op), typ, lo, go) :
        lo \in IterOrders(LocalOf(op)), go \in IterOrders(GlobalOf(op))}

\* typ is exactly registered in r, or its pointer type implements an interface
\* registered in r
Resolvable(r, typ) ==
    \/ getFromType(r, typ) # Nil
    \/ \E x \in Interfaces(r) : Implements(PtrTo(typ), x)

\* the types that res.t points to, directly or through further pointers
Pointees(typ) == {[n |-> typ.n, p |-> q] : q \in 0..(typ.p - 1)}

\* a pointer type between T (excluded) and typ (included) is itself exactly
\* registered in r
PointerRegistered(r, T, typ) ==
    \E q \in (T.p + 1)..typ.p : getFromType(r, [n |-> typ.n, p |-> q]) # Nil

\* C14 as stated: a lookup of *T, **T, ... returns the one converter that a
\* lookup of T returns, whenever T is exactly registered or *T implements a
\* registered interface, in the unmarshal and in the marshal registry.
C14_SameAtEveryDepth ==
    res.op \in LookupOps =>
        \A T \in Pointees(res.t) :
            (Resolvable(LocalOf(res.op), T) \/ Resolvable(GlobalOf(res.op), T))
                => CanReturn(res.op, T) = {res.fn}

\* C14: when no pointer type on the way from T to the looked up type
\* is itself exactly registered, the lookup of *T, **T, ... returns a
\* converter that the lookup of T can return, and the lookups of T and of the
\* pointer type can return the same converters.
C14_SameUnlessPointerRegistered ==
    res.op \in LookupOps =>
        \A T \in Pointees(res.t) :
            (/\ Resolvable(LocalOf(res.op), T) \/ Resolvable(GlobalOf(res.op), T)
             /\ ~PointerRegistered(LocalOf(res.op), T, res.t)
             /\ ~PointerRegistered(GlobalOf(res.op), T, res.t))
                => /\ res.fn \in CanReturn(res.op, T)
                   /\ CanReturn(res.op, res.t) = CanReturn(res.op, T)

\* **OnlyU resolved through the interface that the program registered
C14_Witness ==
    /\ res.op = "GetUnmarshalFunc"
    /\ res.t = [n |-> "OnlyU", p |-> 2]
    /\ res.fn = "userFunc1"
    /\ getFromType(ureg, Ty("TextUnmarshaler")) = "userFunc1"
    /\ ~PointerRegistered(ureg, Ty("OnlyU"), res.t)


\* ---------------------------------------------------------------------------
\* C15: a scoped instance asks its own register first

ScopedOps == {"Func", "Marshaler.Func", "Other.Func"}

\* what find can return for typ on register r
Finds(r, typ) == {find(r, typ, o) : o \in IterOrders(r)}

\* C15: Func(T) of a scoped Unmarshaler or Marshaler is the find(T) of its
\* own register whenever that is not nil, whatever the global register holds
\* for T, and the find(T) of the global register otherwise; an instance
\* without registrations resolves as the global one.
C15_LocalBeforeGlobal ==
    res.op \in ScopedOps =>
        LET l == LocalOf(res.op)
            g == GlobalOf(res.op)
        IN /\ Finds(l, res.t) # {Nil} =>
                res.fn # Nil /\ res.fn \in Finds(l, res.t)
           /\ Finds(l, res.t) = {Nil} => res.fn \in Finds(g, res.t)
           /\ l = ZeroRegister => res.fn \in Finds(g, res.t)

\* the scoped Unmarshaler matches *TextBoth through an interface of its own
\* while the global register holds TextBoth itself
C15_Witness ==
    /\ res.op = "Func"
    /\ res.t = [n |-> "TextBoth", p |-> 1]
    /\ getFromType(lreg, Ty("TextBoth")) = Nil
    /\ getFromType(lreg, Ty("Stringer")) = res.fn
    /\ getFromType(ureg, Ty("TextBoth")) \notin {Nil, res.fn}


\* ---------------------------------------------------------------------------
\* C16: a scoped registration stays in its instance

\* what an instance with local register l and global register g can resolve
\* each looked up type to
Resolution(l, g) ==
    [typ \in LookupTypes |->
        {Func(l, g, typ, lo, go) : lo \in IterOrders(l), go \in IterOrders(g)}]

\* a step leaves the global registers and what the global functions resolve
GlobalsKept ==
    /\ ureg' = ureg /\ mreg' = mreg
    /\ Resolution(ureg', ureg') = Resolution(ureg, ureg)
    /\ Resolution(mreg', mreg') = Resolution(mreg, mreg)

\* a step leaves an instance's register and what the instance resolves
InstanceKept(l, lNext, g, gNext) ==
    lNext = l /\ Resolution(lNext, gNext) = Resolution(l, g)

\* after a step that registered res'.t globally, an instance with local
\* register l and no local match for that type resolves it to the new function
SeesGlobal(l, g) ==
    Finds(l, res'.t) = {Nil} =>
        \A lo \in IterOrders(l), go \in IterOrders(g) :
            Func(l, g, res'.t, lo, go) = res'.fn

ScopedRegisterStep ==
    /\ res'.op = "Register" =>
        /\ GlobalsKept
        /\ InstanceKept(lreg2, lreg2', ureg, ureg')
        /\ InstanceKept(lmreg, lmreg', mreg, mreg')
    /\ res'.op = "Other.Register" =>
        /\ GlobalsKept
        /\ InstanceKept(lreg, lreg', ureg, ureg')
        /\ InstanceKept(lmreg, lmreg', mreg, mreg')
    /\ res'.op = "Marshaler.Register" =>
        /\ GlobalsKept
        /\ InstanceKept(lreg, lreg', ureg, ureg')
        /\ InstanceKept(lreg2, lreg2', ureg, ureg')
    /\ (res'.op = "RegisterUnmarshalFunc" /\ res'.panic = "") =>
        SeesGlobal(lreg', ureg') /\ SeesGlobal(lreg2', ureg')
    /\ (res'.op = "RegisterMarshalFunc" /\ res'.panic = "") =>
        SeesGlobal(lmreg', mreg')

\* C16: Register on a scoped Unmarshaler or Marshaler leaves the global
\* registers (table and function list), what the global functions resolve and
\* what every other instance resolves as they were; and a global registration
\* is resolved by every instance that has no local match for the type.
C16_ScopedRegisterIsLocal == [][ScopedRegisterStep]_vars

\* u registered TextBoth after the program registered it globally: the second
\* instance, without registrations, still resolves the global function
C16_Witness ==
    /\ res.op = "Register" /\ res.t = Ty("TextBoth") /\ res.fn = "userFunc2"
    /\ getFromType(ureg, Ty("TextBoth")) = "userFunc1"
    /\ getFromType(lreg, Ty("TextBoth")) = "userFunc2"
    /\ lreg2 = ZeroRegister
    /\ Resolution(lreg2, ureg)[Ty("TextBoth")] = {"userFunc1"}


\* ---------------------------------------------------------------------------
\* C17: Unmarshal wants a non-nil pointer

\* the argument of the recorded call was nil, not a pointer, or a nil pointer
NoPointerGiven == Kind(res.t) # "ptr" \/ res.before = <<>>

\* C17: for every Value, Unmarshal(val, v) with v nil, not a pointer or a nil
\* pointer returns ErrPointerExpected and nothing else, leaves v as it was and
\* calls no registered function.
C17_PointerExpected ==
    (res.op = "Unmarshal" /\ NoPointerGiven) =>
        /\ res.err = Err(ErrPointerExpected)
        /\ res.after = res.before
        /\ res.calls = <<>>
        /\ res.panic = ""

\* a nil *TextBoth, for whose type the registry holds a function, and a Value
\* that the function would accept
C17_Witness ==
    /\ res.op = "Unmarshal"
    /\ res.t = [n |-> "TextBoth", p |-> 1]
    /\ res.before = <<>>
    /\ res.val = Txt(<<"9">>)
    /\ res.err = Err(ErrPointerExpected)


\* ---------------------------------------------------------------------------
\* C18: a nil pointer marshals to nothing

\* the recorded call marshalled a pointer that is nil or leads to a nil one
NilPointerGiven ==
    res.op = "Marshal" /\ res.t.p > 0 /\ NilDepth(res.t, res.x) < res.t.p

\* C18: Marshal of a nil pointer, at whatever depth of whatever pointee type,
\* returns the empty Value and no error, and calls no registered MarshalFunc.
C18_NilPointerIsEmpty ==
    NilPointerGiven =>
        /\ res.str = <<>>
        /\ res.err = NoErr
        /\ res.calls = <<>>
        /\ res.panic = ""

\* a **TextBoth whose inner pointer is nil: marshalText is registered for it
C18_Witness ==
    /\ NilPointerGiven
    /\ res.t = [n |-> "TextBoth", p |-> 2]
    /\ res.x = << <<>> >>
    /\ \A o \in IterOrders(mreg) : find(mreg, res.t, o) = "marshalText"
    /\ res.str = <<>>


\* ---------------------------------------------------------------------------
\* C19: Marshal of arrays, slices and maps

\* no MarshalFunc is found for typ
NoMarshalFunc(typ) ==
    \A go \in IterOrders(mreg) : Func(mreg, mreg, typ, go, go) = Nil

\* typ is an array, slice or map that no MarshalFunc is found for
MNested(typ) == Kind(typ) \in {"array", "slice", "map"} /\ NoMarshalFunc(typ)

\* Marshal of the value v of type typ on its own
Encoding(typ, v) ==
    LET go == CHOOSE o \in IterOrders(mreg) : TRUE
    IN Marshal(typ, v, [l |-> go, g |-> go, m |-> <<>>])

Encodes(typ, v) == Encoding(typ, v).err = NoErr /\ Encoding(typ, v).panic = ""

RECURSIVE Join(_, _)
\* the texts of parts with sep between them
Join(parts, sep) ==
    IF parts = <<>> THEN <<>>
    ELSE IF Len(parts) = 1 THEN parts[1]
    ELSE parts[1] \o sep \o Join(Tail(parts), sep)

\* the recorded call marshalled an array, slice or map, directly or behind
\* pointers none of which is nil, of a type no MarshalFunc is found for
PlainCompositeGiven ==
    /\ res.op = "Marshal"
    /\ NameKind(res.t.n) \in {"array", "slice", "map"}
    /\ NilDepth(res.t, res.x) = res.t.p
    /\ NoMarshalFunc(res.t)

\* the array or slice x of type typ came out as its elements' encodings in
\* index order
JoinedElements(typ, x) ==
    IF x # <<>> /\ MNested(Elem(typ)) THEN Is(res.err, ErrMarshalNested)
    ELSE (\A i \in DOMAIN x : Encodes(Elem(typ), x[i])) =>
            /\ res.err = NoErr /\ res.panic = ""
            /\ res.str = Join([i \in DOMAIN x |-> Encoding(Elem(typ), x[i]).str],
                               DefaultItemsSeparator)

\* the map x of type typ came out as one pair per entry, in some order
JoinedPairs(typ, x) ==
    LET keys == DOMAIN x.m
        Pair(k) == Encoding(Key(typ), k).str \o DefaultKeyValueSeparator
                        \o Encoding(Elem(typ), x.m[k]).str
    IN IF keys # {} /\ (MNested(Key(typ)) \/ MNested(Elem(typ)))
       THEN Is(res.err, ErrMarshalNested)
       ELSE (\A k \in keys : Encodes(Key(typ), k) /\ Encodes(Elem(typ), x.m[k])) =>
            /\ res.err = NoErr /\ res.panic = ""
            /\ \E o \in [1..Cardinality(keys) -> keys] :
                /\ \A i, j \in DOMAIN o : o[i] = o[j] => i = j
                /\ res.str = Join([i \in DOMAIN o |-> Pair(o[i])],
                                  DefaultItemsSeparator)

\* C19: Marshal of an array or slice is the encodings of its elements joined
\* in index order by the item separator; Marshal of a map is one
\* key<kvsep>value pair per entry, joined by the item separator in some
\* order; an element, key or value of kind array, slice or map for which no
\* MarshalFunc is registered makes it fail with ErrMarshalNested.
C19_CompositeEncode ==
    PlainCompositeGiven =>
        LET typ == Ty(res.t.n)
            x == LeafOf(res.t, res.x)
        IN IF Kind(typ) = "map" THEN JoinedPairs(typ, x)
           ELSE JoinedElements(typ, x)

\* a map of two entries
C19_Witness ==
    /\ PlainCompositeGiven
    /\ res.t = Ty("map[string]string")
    /\ res.mo = <<Txt(<<"a">>), Txt(<<"9">>)>>
    /\ res.str = Txt(<<"a", "=", "9", ",", "9", "=", "9">>)


\* ---------------------------------------------------------------------------
\* C20: types with MarshalText

\* the recorded call marshalled a value, or a non-nil pointer to a value, of
\* a type T such that T or *T has MarshalText
TextMarshalerGiven ==
    /\ res.op = "Marshal"
    /\ "TextMarshaler" \in PointerMethods(res.t.n)
    /\ res.t.p <= 1
    /\ NilDepth(res.t, res.x) = res.t.p

\* C20: Marshal of a value of a type T, passed as T or as *T, returns what
\* its MarshalText returns and does not panic, whether MarshalText is
\* declared on T or on *T only.
C20_TextMarshalerEncodes ==
    TextMarshalerGiven =>
        /\ res.panic = ""
        /\ res.err = NoErr
        /\ res.str = LeafOf(res.t, res.x)


\* ---------------------------------------------------------------------------
\* C22: a registered function comes first and is final

\* the functions a lookup of typ in the global unmarshal register can find
Found(typ) == {Func(ureg, ureg, typ, go, go) : go \in IterOrders(ureg)} \ {Nil}

\* the recorded call was Unmarshal(val, v) with v a pointer that is not nil
PointerGiven == res.op = "Unmarshal" /\ Kind(res.t) = "ptr" /\ res.before # <<>>

\* the outcome is that of the one call fn(val, dest) and of nothing else
OnlyCalled(fn) ==
    LET leaf == LeafOf(res.t, res.before)
        r == call(fn, res.val, res.t.n, leaf)
    IN /\ res.calls = <<[fn |-> fn, arg |-> res.val]>>
       /\ res.panic = r.panic
       /\ (r.err = NoErr) <=> (res.err = NoErr)
       /\ r.panic = "" => LeafOf(res.t, res.after) = r.v

\* C22: when Func finds a function for the type of the destination (the type
\* itself, its pointee or an interface), unmarshal calls that function once
\* with the Value, the empty Value included, and the outcome is the
\* function's: the test for the empty Value, the switch on the kind and the
\* splitting of composites do not run.  An element of a slice for whose type
\* a function is found is decoded by that function, once per part.
C22_RegistryHitIsTerminal ==
    /\ (PointerGiven /\ Found(res.t) # {}) =>
            \E fn \in Found(res.t) : OnlyCalled(fn)
    /\ (PointerGiven /\ res.t.n = "[]TextSlice" /\ res.t.p = 1
            /\ res.val # <<>> /\ res.err = NoErr) =>
            res.calls = [i \in DOMAIN Parts(res.val) |->
                            [fn |-> "unmarshalText",
                             arg |-> TrimSpace(Parts(res.val)[i])]]

\* the empty Value into a variable of a type with UnmarshalText that held a
\* text: the function is called and the variable is emptied
C22_Witness ==
    /\ PointerGiven
    /\ res.t = [n |-> "TextBoth", p |-> 1]
    /\ res.val = <<>>
    /\ res.before = <<Txt(<<"9">>)>>
    /\ res.calls = <<[fn |-> "unmarshalText", arg |-> <<>>]>>
    /\ res.after = << <<>> >>


\* ---------------------------------------------------------------------------
\* C23: a failed decode and the destination

\* the recorded call decoded into a variable of a primitive kind, or through
\* a registered function, and returned an error
FailedDecode ==
    /\ PointerGiven
    /\ res.panic = ""
    /\ res.err # NoErr
    /\ NameKind(res.t.n) \in PrimNames \/ Found(res.t) # {}

\* C23: when a decode into a destination of a primitive kind or through a
\* registered function returns an error, the destination holds the value it
\* held before the call; so after a range or syntax error on an integer, and
\* after a Value too long for a rune.
C23_FailureKeepsDestination == FailedDecode => res.after = res.before


\* ---------------------------------------------------------------------------
\* C24: decode allocates the nil pointers on its way

DecodeOps == {"Unmarshal", "Unmarshaler.Unmarshal", "Exec"}

\* the recorded call decoded into a chain of pointers and returned no error
DecodedPointer ==
    /\ res.op \in DecodeOps
    /\ Kind(res.t) = "ptr"
    /\ res.err = NoErr /\ res.panic = ""

\* every pointer of the chain v of type t is non-nil
AllAllocated(t, v) == NilDepth(t, v) = t.p

\* C24 as stated: after a call of Unmarshal or Exec that returns no error on
\* a chain of pointers, every pointer of the chain is non-nil, for every
\* Value, the empty one included, and for registered and built-in pointee
\* types.
C24_AlwaysAllocated == DecodedPointer => AllAllocated(res.t, res.after)

\* what the code does: the chain is allocated when the call was Exec, when a
\* function is found for the type, or when the Value is not empty; the empty
\* Value into a type without a function leaves the chain as it was, nil
\* pointers included
AllocatedUnlessEmpty ==
    DecodedPointer =>
        IF res.op = "Exec" \/ Found(res.t) # {} \/ res.val # <<>>
        THEN AllAllocated(res.t, res.after)
        ELSE res.after = res.before



\* ---------------------------------------------------------------------------
\* C27: values that cannot be set or addressed are refused before any write

\* the recorded call was given a reflect.Value that is not settable
UnsettableGiven ==
    /\ res.op \in {"Unmarshaler.Unmarshal", "Exec"}
    /\ ~res.set

\* the call returned an error matching target without invoking a converter
\* and without allocating or writing anything
RefusedWith(target) ==
    /\ res.panic = "" /\ Is(res.err, target)
    /\ res.calls = <<>>
    /\ res.after = res.before

\* C27: Unmarshaler.Unmarshal on a non-pointer reflect.Value that is not
\* settable returns ErrUnableToSet; a nil pointer that is not settable makes
\* decode return ErrUnableToSet; UnmarshalFunc.Exec on a non-pointer value
\* whose address cannot be taken returns ErrUnableToAddr; in each case no
\* converter is invoked and nothing is allocated or written.
C27_UnsettableRefused ==
    UnsettableGiven =>
        /\ (Kind(res.t) # "ptr" /\ res.op = "Unmarshaler.Unmarshal"
                => RefusedWith(ErrUnableToSet))
        /\ (Kind(res.t) = "ptr" /\ res.before = <<>>
                => RefusedWith(ErrUnableToSet))
        /\ (Kind(res.t) # "ptr" /\ res.op = "Exec"
                => RefusedWith(ErrUnableToAddr))


\* ---------------------------------------------------------------------------
\* C25: what a failed composite decode leaves behind

\* the composite types whose elements and keys are plain primitives
PlainComposites ==
    {"[1]int8", "[2]int8", "[3]int8", "[2]string", "[]int8", "[]string",
     "map[string]string", "map[string]int8", "map[int8]string"}

ElemOrder == CHOOSE go \in IterOrders(ureg) : TRUE

\* the decode of one element, key or value text into a fresh value of typ
ElemDecode(typ, part) ==
    unmarshal(GlobalUnmarshaler, ureg, part, NewElem(typ), TRUE,
              [l |-> ElemOrder, g |-> ElemOrder, m |-> <<>>])

Failed(r) == r.err # NoErr \/ r.panic # ""

\* part cannot be decoded as an element (array, slice) or a pair (map) of typ
PartFails(typ, part) ==
    IF Kind(typ) = "map"
    THEN LET kv == SplitN2(part, keyValueSeparator(ZeroOptions))
         IN \/ Len(kv) # 2
            \/ Failed(ElemDecode(Key(typ), kv[1]))
            \/ Failed(ElemDecode(Elem(typ), kv[2]))
    ELSE Failed(ElemDecode(Elem(typ), TrimSpace(part)))

\* part i is decoded and stored
PartOk(typ, parts, i) ==
    /\ ~PartFails(typ, parts[i])
    /\ Kind(typ) = "array" => i <= ArrayLen(typ)

\* the index of the first part that fails, Len(parts) + 1 when none does
FailingPart(typ, parts) ==
    CHOOSE i \in 1..(Len(parts) + 1) :
        /\ \A j \in 1..(i - 1) : PartOk(typ, parts, j)
        /\ i = Len(parts) + 1 \/ ~PartOk(typ, parts, i)

RECURSIVE PutPairs(_, _, _, _, _)
\* the map m after the pairs i..k of parts are stored
PutPairs(typ, parts, m, i, k) ==
    IF i > k THEN m
    ELSE LET kv == SplitN2(parts[i], keyValueSeparator(ZeroOptions))
         IN PutPairs(typ, parts,
                     Put(m, ElemDecode(Key(typ), kv[1]).v,
                         ElemDecode(Elem(typ), kv[2]).v), i + 1, k)

\* the recorded call decoded into a plain composite and failed at part k > 1
LaterElementFailed ==
    /\ PointerGiven
    /\ res.t.n \in PlainComposites
    /\ res.err # NoErr /\ res.panic = ""
    /\ FailingPart(Ty(res.t.n), split(res.val, itemSeparator(ZeroOptions))) > 1

\* the parts before k are in the array, the elements from k on are as before
ArrayCommitted(typ, parts, k, before, after) ==
    \A j \in 1..ArrayLen(typ) :
        after[j] = IF j < k THEN ElemDecode(Elem(typ), TrimSpace(parts[j])).v
                   ELSE before[j]

\* the parts before k are the elements of the slice
SliceCommitted(typ, parts, k, after) ==
    /\ Len(after) >= k - 1
    /\ \A j \in 1..(k - 1) :
            after[j] = ElemDecode(Elem(typ), TrimSpace(parts[j])).v

\* the pairs before k are in the map, and nothing else has changed
MapCommitted(typ, parts, k, before, after) ==
    /\ ~after.nil
    /\ after.m = PutPairs(typ, parts, before.m, 1, k - 1)

\* C25 as stated: when a composite decode fails at a later element, the
\* elements decoded before it stay in the destination and nothing at or after
\* the failing element is written, for array, slice and map alike.
C25_EarlierElementsStay ==
    LaterElementFailed =>
        LET typ == Ty(res.t.n)
            parts == split(res.val, itemSeparator(ZeroOptions))
            k == FailingPart(typ, parts)
            before == LeafOf(res.t, res.before)
            after == LeafOf(res.t, res.after)
        IN CASE Kind(typ) = "array" -> ArrayCommitted(typ, parts, k, before, after)
             [] Kind(typ) = "slice" -> SliceCommitted(typ, parts, k, after)
             [] Kind(typ) = "map" -> MapCommitted(typ, parts, k, before, after)

\* C25: when a composite decode fails at a later element, the elements decoded
\* before it stay in the destination and nothing at or after the failing
\* element is written, for array and map; a slice is set only after its last
\* element, so a failed slice decode leaves the destination as it was.
C25_EarlierElementsStayButSlice ==
    LaterElementFailed =>
        LET typ == Ty(res.t.n)
            parts == split(res.val, itemSeparator(ZeroOptions))
            k == FailingPart(typ, parts)
            before == LeafOf(res.t, res.before)
            after == LeafOf(res.t, res.after)
        IN CASE Kind(typ) = "array" -> ArrayCommitted(typ, parts, k, before, after)
             [] Kind(typ) = "slice" -> after = before
             [] Kind(typ) = "map" -> MapCommitted(typ, parts, k, before, after)

\* "1,a,2" into a [3]int8 that held 7,7,7: the 1 is kept, the rest is as before
C25_Witness ==
    /\ LaterElementFailed
    /\ res.t = [n |-> "[3]int8", p |-> 1]
    /\ res.val = Txt(<<"1", ",", "a", ",", "2">>)
    /\ res.before = << <<7, 7, 7>> >>
    /\ res.after = << <<1, 7, 7>> >>


\* ---------------------------------------------------------------------------
\* C26: the error of a registered function is wrapped, a built-in one is not

\* a type the function fn accepts a pointer to
FuncArgType(fn) ==
    CASE fn = "unmarshalText" -> "TextBoth"
      [] fn = "unmarshalRune" -> "int32"
      [] fn = "unmarshalDuration" -> "Duration"
      [] fn = "unmarshalUrl" -> "URL"
      [] OTHER -> "Struct"

\* the error fn itself returns for the Value arg
FuncErr(fn, arg) ==
    call(fn, arg, FuncArgType(fn), Zero(Ty(FuncArgType(fn)))).err

\* the recorded call of Unmarshal returned an error
DecodeFailed == res.op = "Unmarshal" /\ res.panic = "" /\ res.err # NoErr

\* the error came from a registered function: the last function invoked
\* returned one, which ends the decode
FuncFailed ==
    /\ res.calls # <<>>
    /\ FuncErr(res.calls[Len(res.calls)].fn, res.calls[Len(res.calls)].arg) # NoErr

CompositeDecoded(k) ==
    /\ PointerGiven
    /\ res.t.n \in PlainComposites /\ NameKind(res.t.n) = k
    /\ res.val # <<>>
    /\ res.err = NoErr /\ res.panic = ""

\* the key and the value pair i of parts names
PairOf(typ, parts, i) ==
    LET kv == SplitN2(parts[i], keyValueSeparator(ZeroOptions))
    IN [k |-> ElemDecode(Key(typ), kv[1]).v, v |-> ElemDecode(Elem(typ), kv[2]).v]

\* the last pair of parts that names key
LastNaming(typ, parts, key) ==
    CHOOSE i \in DOMAIN parts :
        /\ PairOf(typ, parts, i).k = key
        /\ \A j \in DOMAIN parts : PairOf(typ, parts, j).k = key => j <= i

Entries(r) ==
    UNION {{[t |-> typ, i |-> r.types[k][typ]] : typ \in DOMAIN r.types[k]} :
            k \in DOMAIN r.types}

\* the number of add calls on the register named reg that did not panic
Successful(reg) == Cardinality({i \in DOMAIN hist : hist[i].reg = reg})

\* every index of the type table is below len(funcs), distinct types have
\* distinct indices, len(funcs) is the number of successful registrations,
\* and getFromIndex does not panic on any index of the table
Sound(r, reg) ==
    /\ \A e \in Entries(r) : e.i >= 0 /\ e.i < Len(r.funcs)
    /\ \A e, f \in Entries(r) : e.t # f.t => e.i # f.i
    /\ Len(r.funcs) = Successful(reg)
    /\ \A e \in Entries(r) : getFromIndex(r, e.i) # panicInvalidFuncIndex

RegistersSound ==
    /\ Sound(ureg, "unmarshaler") /\ Sound(mreg, "marshaler")
    /\ Sound(lreg, "u") /\ Sound(lmreg, "m") /\ Sound(lreg2, "u2")

\* a step that records a panicking Register call leaves every register as
\* it was
PanicKeepsRegisters ==
    res'.op \in RegisterOps /\ res'.panic # ""
        => UNCHANGED <<ureg, mreg, lreg, lmreg, lreg2, hist>>

\* C29: after any sequence of Register calls, panicking ones included, which
\* leave the register unchanged, every index of the type table is below
\* len(funcs), distinct types map to distinct indices and len(funcs) is the
\* number of successful registrations, so getFromIndex never raises the
\* invalid-index panic.
C29_RegistersStaySound ==
    RegistersSound /\ [][RegistersSound' /\ PanicKeepsRegisters]_vars

\* a Register call on u that panicked after one that did not
C29_Witness ==
    /\ res.op = "Register" /\ res.panic = panicUnsupportedKind
    /\ Len(lreg.funcs) = 1 /\ Successful("u") = 1
    /\ Entries(lreg) # {}


\* ---------------------------------------------------------------------------
\* C28: Register is not safe under concurrency

\* no add call is in progress
Quiet == \A r \in Registrars : ~Active(r)

\* two different types are mapped to the same function index
SameIndex == \E e, f \in Entries(ureg) : e.t # f.t /\ e.i = f.i

\* a registered function is lost: fewer functions than add calls that returned
FuncLost == Len(ureg.funcs) < hist.ok

\* a mapped index is not below len(funcs)
Dangling == \E e \in Entries(ureg) : e.i >= Len(ureg.funcs)

\* the find of l read a mapped index >= len(funcs) and panicked
FindPanicked(l) == res[l].out = panicInvalidFuncIndex

Overlapped(p, q) == {p, q} \in hist.overlapped

\* C28: interleaved Register calls on one register, or a Register call
\* interleaved with a lookup, can reach a bad state: two different types
\* mapped to the same index, a registered function lost, or a lookup that
\* reads a mapped index >= len(funcs) and panics with the invalid-index
\* message (C28_Witness is such a state).  Calls that do not overlap never
\* do: the register is bad between calls only when the two Register calls
\* overlapped, and a lookup panics only when it overlapped a Register call.
C28_BadOnlyWhenOverlapped ==
    /\ Quiet /\ (SameIndex \/ FuncLost \/ Dangling) => Overlapped("r1", "r2")
    /\ \A l \in Finders :
            FindPanicked(l) => \E r \in Registrars : Overlapped(l, r)

\* all calls have returned: two types share an index, a function is lost and
\* a lookup has panicked
C28_Witness ==
    /\ \A p \in Procs : pc[p] = "done"
    /\ ~hist.fatal
    /\ SameIndex /\ FuncLost
    /\ \E l \in Finders : FindPanicked(l)

\* ---------------------------------------------------------------------------
\* C21: lookups never write

\* the step is one of a find call
FindStep == \E l \in Finders : pc'[l] # pc[l]

\* the find of l returns in this step, and no add call overlapped it
FindReturns(l) ==
    /\ pc[l] \notin {"idle", "done"} /\ pc'[l] = "done"
    /\ ~hist'.fatal
    /\ \A r \in Registrars : ~Overlapped(l, r)

\* what r.find(typ) returns when nothing else runs
Sequential(r, typ) == {find(r, typ, go) : go \in IterOrders(r)}

\* C21: lookups never write: a step of find leaves the type table and the
\* function list of every register unchanged, so a lookup that runs while no
\* registration does, whatever other lookups run with it, resolves its type
\* to a converter a sequential run resolves it to.
C21_LookupsNeverWrite ==
    [][/\ FindStep => UNCHANGED <<ureg, mreg, lreg, lmreg, lreg2>>
       /\ \A l \in Finders :
            FindReturns(l) => res'[l].out \in Sequential(ureg, res[l].t)]_vars

\* registration is complete and no call overlapped one; l1 has resolved
\* TextBoth to the function r1 registered while l2 is in its lookup
C21_Witness ==
    /\ pc["r1"] = "done" /\ pc["r2"] = "done"
    /\ hist.overlapped = {} /\ ~hist.fatal
    /\ pc["l1"] = "done" /\ res["l1"].t = Ty("TextBoth")
    /\ res["l1"].out = UserFunc(1)
    /\ pc["l2"] = "probe"

====
